---- MODULE Spec2Model ----
(***************************************************************************)
(* CausalGo, package surd: SURD.Fit (recursive variable selection), its    *)
(* bounded fan-out processVariables / findBestVariable / updateResults.    *)
(*                                                                         *)
(* Numbers.  Floating-point values are abstracted to small integers:       *)
(*  - an MSE is an ordinary value, or MaxFloat64.  findBestVariable        *)
(*    only ever evaluates  res.mse < bestMSE  with bestMSE <= MaxFloat64,  *)
(*    and that comparison is false for MaxFloat64, +Inf and NaN alike, so  *)
(*    the one value MaxFloat64 stands for all three;                       *)
(*  - a weight is counted in units of config.Tolerance (Tolerance == 1);   *)
(*  - the mse that processLastVariable stores is compared with nothing,    *)
(*    so there NaN is a value of its own: standardize turns a column whose *)
(*    sum is not finite into NaN (stdNaN), and computeMSE of it is NaN.    *)
(*                                                                         *)
(* Regressor.  s.regressor is a fixed but arbitrary deterministic function *)
(* of its arguments (the predictor columns and the target column, that is  *)
(* of the active set and the target index, the standardized matrix being   *)
(* fixed during a run).  Its values are drawn where the program first      *)
(* reads them: the MSE of a task when the task sends its result, the       *)
(* weights when updateResults reads bestWeights.  When Fit is called a     *)
(* second time on the same input (pair = TRUE) the values drawn so far     *)
(* are remembered in memoMSE / memoW and used again.                       *)
(*                                                                         *)
(* LASSO.  regression.LASSO is modelled on its own (SpecLasso), in exact   *)
(* arithmetic: a float64 is a fraction <<numerator, denominator>> in       *)
(* lowest terms.  The scale is small: the constant 1e-12 of lasso.go is    *)
(* the fraction 1/8 (NormFloor, DeltaMin), one unit of Tolerance (1e-5) is *)
(* 1/4 and one unit of Lambda (0.01) is 1/2, so that entries 1/4 and 2     *)
(* give columns below and above the floor and weights below and above the  *)
(* threshold of an update.                                                 *)
(***************************************************************************)
EXTENDS Integers, Sequences, FiniteSets, TLC

MaxP == 3          \* columns of the input matrix: 0..MaxP
MaxWorkers == 2    \* config.Workers after New: 1..MaxWorkers
PairMaxP == 2      \* columns of the input when Fit is called twice
LassoMaxIter == 2  \* MaxIter of the LASSO whose Fit is followed: 1..

Tolerance == 1
MaxFloat64 == 2
NoVar == -1
NaN == 3

\* New, lines 393-405, and NewLASSO, lines 29-37 of lasso.go: the defaults.
\* Lambda is counted in units of 0.01 and Tolerance in units of 1e-5.
DefaultLambda == 1
DefaultTolerance == 1
DefaultMaxIter == 1000
DefaultWorkers == 4
LASSODefaultLambda == 1
LASSODefaultTolerance == 1
LASSODefaultMaxIter == 1000

\* Fit looks at the number of rows only in n == 0 and n < 2
RowCounts == {0, 1, 2}
\* two ordinary values of an MSE, and the sentinel
MSEValues == 0..MaxFloat64
OrdinaryMSE == MSEValues \ {MaxFloat64}
\* a weight below the tolerance and a (negative) weight above it
WeightValues == {-2, 1}
\* a field of the Config given to New: negative, zero, the default of
\* Lambda and Tolerance, another positive value
CfgValues == {-1, 0, 1, 2}

VARIABLES
    xnil, n, p,            \* the argument x of Fit: x == nil, and x.Dims()
    stdNaN,                \* a column of x has no finite sum: stdX holds NaN
    workers,               \* s.config.Workers
    regressor,             \* s.regressor: the default LASSO or a custom one
    solvedBy,              \* the regressors this Fit has called
    pc,                    \* position of the goroutine that runs Fit
    err, ret,              \* what Fit returned
    stdDone,               \* stdX and result have been built
    remaining,             \* remaining []bool
    Order, Residuals, Adjacency, Weights,     \* result *GraphResult
    dj,                    \* loop variable j of processVariables
    task,                  \* position of the goroutine started for j
    minMSE, minSet,        \* least mse sent in this iteration, and by whom
    sem, wg,               \* len(sem), counter of the WaitGroup
    results, closed,       \* buffer of the channel results; it is closed
    bestVar, bestMSE, bestWeights,            \* locals of findBestVariable
    otherW,                \* weight of bestVar in the results not selected
    fitW,                  \* fitW[i][j]: weight of predictor j in the fit that
                           \* selected i (0 where there is none)
    calls,                 \* calls of s.regressor.Fit made by this Fit
    got,                   \* got[j]: results with idx j that findBestVariable
                           \* has received in this iteration
    barriers,              \* times wg.Wait() has returned in this Fit
    fitArgs,               \* fitArgs[j]: what the task of column j passed to
                           \* s.regressor.Fit in this iteration
    pair, run, prev,       \* Fit is called twice; call number; first result
    memoMSE, memoW,        \* values of the regressor drawn so far
    cfgIn,                 \* the argument cfg of New
    config, lasso,         \* s.config and the config of the LASSO built
    lassoIn,               \* the argument cfg of NewLASSO
    Xnil, cols, y,         \* arguments of LASSO.Fit: X == nil, columns of X, y
    weights, norms, residual, iter, lj, maxChange,   \* locals of LASSO.Fit
    sweepW,                \* the weights when the current sweep began
    lNewWeight, lDelta,    \* newWeight and delta of the loop over j, kept
                           \* where LASSO.Fit is followed in float64
    lret,                  \* what LASSO.Fit returned
    stZ, stLambda, stOut,  \* arguments and result of a call of softThreshold
    inX, oldX,             \* the entries of the matrix given to Fit or to
                           \* standardize, now and when the call was made
    stdX, sj               \* locals stdX and j of standardize

vars == <<xnil, n, p, stdNaN, workers, regressor, solvedBy, pc, err, ret, stdDone, remaining,
          Order, Residuals, Adjacency, Weights, dj, task, minMSE, minSet, sem,
          wg, results, closed, bestVar, bestMSE, bestWeights, otherW, fitW,
          calls, got, barriers, fitArgs, pair, run, prev, memoMSE, memoW, cfgIn,
          config, lasso,
          lassoIn, Xnil, cols, y, weights, norms, residual, iter, lj,
          maxChange, sweepW, lNewWeight, lDelta, lret, stZ, stLambda, stOut, inX, oldX, stdX, sj>>

\* the state of New
newVars == <<cfgIn, config, lasso>>
\* the arguments and the locals of LASSO.Fit
lassoArgs == <<lassoIn, Xnil, cols, y>>
lassoLocals == <<weights, norms, residual, iter, lj, maxChange, sweepW,
                 lNewWeight, lDelta>>
lassoVars == <<lassoArgs, lassoLocals, lret>>
softVars == <<stZ, stLambda, stOut>>
\* what no step of Fit reads or writes
\* the entries of the input and the locals of standardize
stdVars == <<inX, oldX, stdX, sj>>
outsideFit == <<newVars, lassoVars, softVars, stdVars>>
callVars == <<xnil, n, p, stdNaN, workers, regressor, pair, run, prev>>
inputVars == <<callVars, outsideFit>>
resultVars == <<Order, Residuals, Adjacency, Weights>>
poolVars == <<dj, task, minMSE, minSet, sem, wg, results, closed>>
bestVars == <<bestVar, bestMSE, bestWeights, otherW>>
traceVars == <<got, barriers, fitArgs>>
ghostVars == <<fitW, traceVars>>
memoVars == <<memoMSE, memoW>>
\* the state of Fit but for pc
fitRest == <<callVars, err, ret, stdDone, remaining, resultVars, poolVars,
             bestVars, ghostVars, calls, solvedBy, memoVars>>

Cols == 0..(p - 1)

Abs(w) == IF w < 0 THEN -w ELSE w

----------------------------------------------------------------------------
(* Helpers of surd.go *)

Active(rem) == {j \in DOMAIN rem : rem[j]}

countActive(rem) == Cardinality(Active(rem))

\* prepareData: the columns copied into xMat, in the order of colIdx
Predictors(rem, target) == {j \in Active(rem) : j # target}

\* prepareData, lines 508-520: value of colIdx when the loop reaches j
colIdx(rem, target, j) == Cardinality({q \in Predictors(rem, target) : q < j})

\* prepareData returns a nil matrix when predCount <= 0
NoPredictors(rem) == countActive(rem) - 1 <= 0

\* the columns updateResults visits: remaining[j] && j != bestVar
Targets(rem, best) == {j \in DOMAIN rem : rem[j] /\ j # best}

\* idx counts the targets from the last one
UpdateIdx_Descending(rem, best, j) ==
    Cardinality({q \in Targets(rem, best) : q > j})

\* updateResults, lines 672-683: value of idx when the loop reaches j
UpdateIdx(rem, best, j) == Cardinality({q \in Targets(rem, best) : q < j})

\* the selected column stays active
MarkProcessed_Keeps(rem, best) == rem

\* updateResults, line 686
MarkProcessed(rem, best) == [rem EXCEPT ![best] = FALSE]

\* the sign of the weight is not dropped
IsEdge_Signed(w) == w > Tolerance

\* updateResults, line 678
IsEdge(w) == Abs(w) > Tolerance

\* a result that equals the best one so far replaces it
Better_OrEqual(mse, best) == mse <= best

\* findBestVariable, line 656
Better(mse, best) == mse < best

\* the semaphore never blocks; it admits one task too many
CanAcquire_Always(s, w) == TRUE
CanAcquire_OffByOne(s, w) == s <= w

\* processVariables, line 611: sem <- struct{}{} does not block
CanAcquire(s, w) == s < w

\* prepareData, lines 512-520: the loop from column j on.  A column of x
\* is named by its index: xMat is the sequence of the columns copied
RECURSIVE CollectFrom(_, _, _)
CollectFrom(rem, target, j) ==
    IF j \notin DOMAIN rem THEN <<>>
    ELSE IF ~rem[j] \/ j = target THEN CollectFrom(rem, target, j + 1)
    ELSE <<j>> \o CollectFrom(rem, target, j + 1)

\* the loop does not skip the target
prepareData_KeepsTarget(rem, target) ==
    IF countActive(rem) - 1 <= 0
    THEN [isNil |-> TRUE, xMat |-> <<>>, y |-> target]
    ELSE [isNil |-> FALSE, xMat |-> CollectFrom(rem, -1, 0), y |-> target]

\* prepareData, lines 492-523: the predictor matrix and the target vector
prepareData(rem, target) ==
    IF countActive(rem) - 1 <= 0
    THEN [isNil |-> TRUE, xMat |-> <<>>, y |-> target]
    ELSE [isNil |-> FALSE, xMat |-> CollectFrom(rem, target, 0),
          y |-> target]

\* the vector the regressor returns: one weight per column of xMat, wf[j]
\* being the weight it gives to the predictor column j
WeightSeq(rem, target, wf) ==
    [k \in 1..Cardinality(Predictors(rem, target)) |->
        wf[CHOOSE j \in Predictors(rem, target) : colIdx(rem, target, j) = k - 1]]

\* the edge is written into the row of the target, not of bestVar
NewAdjacency_Transposed(A, rem, best, bw) ==
    [i \in DOMAIN A |-> [j \in DOMAIN A[i] |->
        IF j = best /\ i \in Targets(rem, best)
              /\ IsEdge(bw[UpdateIdx(rem, best, i) + 1])
        THEN TRUE ELSE A[i][j]]]

NewAdjacency(A, rem, best, bw) ==
    [i \in DOMAIN A |-> [j \in DOMAIN A[i] |->
        IF i = best /\ j \in Targets(rem, best)
              /\ IsEdge(bw[UpdateIdx(rem, best, j) + 1])
        THEN TRUE ELSE A[i][j]]]

\* the weight is stored also when it is not above the tolerance
NewWeights_Unchecked(W, rem, best, bw) ==
    [i \in DOMAIN W |-> [j \in DOMAIN W[i] |->
        IF i = best /\ j \in Targets(rem, best)
        THEN bw[UpdateIdx(rem, best, j) + 1] ELSE W[i][j]]]

NewWeights(W, rem, best, bw) ==
    [i \in DOMAIN W |-> [j \in DOMAIN W[i] |->
        IF i = best /\ j \in Targets(rem, best)
              /\ IsEdge(bw[UpdateIdx(rem, best, j) + 1])
        THEN bw[UpdateIdx(rem, best, j) + 1] ELSE W[i][j]]]

----------------------------------------------------------------------------
(* The regressor as a function whose values are drawn on first use *)

\* only a first call of two has a later call that asks again
Remember(m, k, v) == IF pair /\ run = 1 THEN (k :> v) @@ m ELSE m

\* calculateResiduals and computeMSE, lines 630-631: a NaN in xSub or y
\* makes the mse NaN, whatever the weights
MSEChoices(S, t) ==
    IF stdNaN THEN {MaxFloat64}
    ELSE IF <<S, t>> \in DOMAIN memoMSE THEN {memoMSE[<<S, t>>]}
    ELSE MSEValues

\* processLastVariable, lines 590-592: computeMSE of the standardized column
LastMSEChoices(j) ==
    IF stdNaN THEN {NaN} ELSE MSEChoices({j}, j) \cap OrdinaryMSE

WChoices(S, t, q) ==
    IF <<S, t, q>> \in DOMAIN memoW THEN {memoW[<<S, t, q>>]} ELSE WeightValues

\* wf[q] is the weight of predictor q in the fit of target best
RememberW(m, S, best, wf) ==
    IF pair /\ run = 1
    THEN [k \in {<<S, best, q>> : q \in DOMAIN wf} |-> wf[k[3]]] @@ m
    ELSE m

----------------------------------------------------------------------------
NoPool ==
    /\ dj = 0 /\ task = <<>> /\ minMSE = MaxFloat64 /\ minSet = {}
    /\ sem = 0 /\ wg = 0
    /\ results = <<>> /\ closed = FALSE
    /\ got = <<>> /\ barriers = 0 /\ fitArgs = <<>>

NoBest ==
    /\ bestVar = NoVar /\ bestMSE = MaxFloat64 /\ bestWeights = <<>>
    /\ otherW = <<>>

NoResult ==
    /\ Order = <<>> /\ Residuals = <<>> /\ Adjacency = <<>> /\ Weights = <<>>
    /\ remaining = <<>> /\ stdDone = FALSE /\ fitW = <<>>

\* New was called with some Config; only Workers is read by Fit
NoConfig == [Lambda |-> 0, Tolerance |-> 0, MaxIter |-> 0, Workers |-> 0]
NoLASSO == [Lambda |-> 0, Tolerance |-> 0, MaxIter |-> 0]

NewUnused == cfgIn = NoConfig /\ config = NoConfig /\ lasso = NoLASSO

\* LASSO.Fit is not entered
NoLassoLocals ==
    /\ weights = <<>> /\ norms = <<>> /\ residual = <<>>
    /\ iter = 0 /\ lj = 0 /\ maxChange = <<0, 1>> /\ sweepW = <<>>
    /\ lNewWeight = <<0, 1>> /\ lDelta = <<0, 1>>
    /\ lret = [isNil |-> FALSE, vec |-> <<>>]

LassoUnused ==
    /\ lassoIn = NoLASSO /\ Xnil = FALSE /\ cols = <<>> /\ y = <<>>
    /\ NoLassoLocals

SoftUnused == stZ = <<0, 1>> /\ stLambda = <<0, 1>> /\ stOut = <<0, 1>>

\* the entries of the input are not followed
StdUnused == inX = <<>> /\ oldX = <<>> /\ stdX = <<>> /\ sj = 0

Entry ==
    /\ pc = "call" /\ err = "none" /\ ret = "none" /\ calls = 0
    /\ solvedBy = {}
    /\ NoResult /\ NoPool /\ NoBest

Init ==
    /\ xnil \in BOOLEAN
    /\ n \in RowCounts
    /\ stdNaN \in BOOLEAN
    /\ p \in 0..MaxP
    /\ workers \in 1..MaxWorkers
    /\ regressor = "lasso"
    /\ pair = FALSE /\ run = 1 /\ prev = <<>>
    /\ memoMSE = <<>> /\ memoW = <<>>
    /\ Entry
    /\ NewUnused /\ LassoUnused /\ SoftUnused /\ StdUnused

InitPair ==
    /\ xnil = FALSE
    /\ n = 2
    /\ stdNaN = FALSE
    /\ p \in 1..PairMaxP
    /\ workers = 1
    /\ regressor = "lasso"
    /\ pair = TRUE /\ run = 1 /\ prev = <<>>
    /\ memoMSE = <<>> /\ memoW = <<>>
    /\ Entry
    /\ NewUnused /\ LassoUnused /\ SoftUnused /\ StdUnused

\* Fit is not called
FitUnused ==
    /\ xnil = FALSE /\ n = 2 /\ p = 1 /\ stdNaN = FALSE
    /\ workers = 1 /\ regressor = "lasso"
    /\ pair = FALSE /\ run = 1 /\ prev = <<>>
    /\ memoMSE = <<>> /\ memoW = <<>>
    /\ err = "none" /\ ret = "none" /\ calls = 0 /\ solvedBy = {}
    /\ NoResult /\ NoPool /\ NoBest

----------------------------------------------------------------------------
\* the number of rows is checked before the emptiness of the matrix
FitValidate_RowsFirst ==
    /\ pc = "call"
    /\ IF xnil
       THEN /\ err' = "nil input matrix" /\ ret' = "nil" /\ pc' = "returned"
       ELSE IF n < 2
       THEN /\ err' = "need at least 2 rows" /\ ret' = "nil"
            /\ pc' = "returned"
       ELSE IF n = 0 \/ p = 0
       THEN /\ err' = "empty input matrix" /\ ret' = "nil" /\ pc' = "returned"
       ELSE /\ pc' = "standardize" /\ UNCHANGED <<err, ret>>
    /\ UNCHANGED ghostVars
    /\ UNCHANGED <<inputVars, stdDone, remaining, resultVars, poolVars,
                   bestVars, calls, solvedBy, memoVars>>

\* the number of rows is checked after the result was allocated, and the
\* result is returned with the error
FitValidate_ChecksRowsLate ==
    /\ pc = "call"
    /\ IF xnil
       THEN /\ err' = "nil input matrix" /\ ret' = "nil" /\ pc' = "returned"
            /\ UNCHANGED stdDone
       ELSE IF n = 0 \/ p = 0
       THEN /\ err' = "empty input matrix" /\ ret' = "nil" /\ pc' = "returned"
            /\ UNCHANGED stdDone
       ELSE IF n < 2
       THEN /\ err' = "need at least 2 rows" /\ ret' = "result"
            /\ pc' = "returned" /\ stdDone' = TRUE
       ELSE /\ pc' = "standardize" /\ UNCHANGED <<err, ret, stdDone>>
    /\ UNCHANGED ghostVars
    /\ UNCHANGED <<inputVars, remaining, resultVars, poolVars,
                   bestVars, calls, solvedBy, memoVars>>

(* Fit, lines 428-442: validation *)
FitValidate ==
    /\ pc = "call"
    /\ IF xnil
       THEN /\ err' = "nil input matrix" /\ ret' = "nil" /\ pc' = "returned"
       ELSE IF n = 0 \/ p = 0
       THEN /\ err' = "empty input matrix" /\ ret' = "nil" /\ pc' = "returned"
       ELSE IF n < 2
       THEN /\ err' = "need at least 2 rows" /\ ret' = "nil"
            /\ pc' = "returned"
       ELSE /\ pc' = "standardize" /\ UNCHANGED <<err, ret>>
    /\ UNCHANGED ghostVars
    /\ UNCHANGED <<inputVars, stdDone, remaining, resultVars, poolVars,
                   bestVars, calls, solvedBy, memoVars>>

(* Fit, lines 444-463: standardize, allocate result and remaining *)
FitAllocate ==
    /\ pc = "standardize"
    /\ stdDone' = TRUE
    /\ Adjacency' = [i \in Cols |-> [j \in Cols |-> FALSE]]
    /\ Weights' = [i \in Cols |-> [j \in Cols |-> 0]]
    /\ Residuals' = [k \in 1..p |-> 0]
    /\ Order' = <<>>
    /\ remaining' = [j \in Cols |-> TRUE]
    /\ fitW' = [i \in Cols |-> [j \in Cols |-> 0]]
    /\ pc' = "loop"
    /\ UNCHANGED traceVars
    /\ UNCHANGED <<inputVars, err, ret, poolVars, bestVars, calls, solvedBy, memoVars>>

(* Fit, lines 466 and 485: the loop condition fails, return result, nil *)
FitReturn ==
    /\ pc = "loop"
    /\ ~(Len(Order) < p)
    /\ ret' = "result" /\ pc' = "returned"
    /\ UNCHANGED ghostVars
    /\ UNCHANGED <<inputVars, err, stdDone, remaining, resultVars, poolVars,
                   bestVars, calls, solvedBy, memoVars>>

\* the residual is recorded at the position before the last entry of Order
ProcessLastVariable_StepBefore ==
    /\ pc = "loop"
    /\ Len(Order) < p
    /\ countActive(remaining) = 1
    /\ LET j == CHOOSE q \in Active(remaining) :
                    \A r \in Active(remaining) : q <= r
       IN \E m \in LastMSEChoices(j) :
            /\ Order' = Append(Order, j)
            /\ Residuals' = [k \in DOMAIN Residuals |->
                                IF k = Len(Order) THEN m ELSE Residuals[k]]
            /\ remaining' = [remaining EXCEPT ![j] = FALSE]
            /\ memoMSE' = Remember(memoMSE, <<{j}, j>>, m)
    /\ UNCHANGED ghostVars
    /\ UNCHANGED <<inputVars, pc, err, ret, stdDone, Adjacency, Weights,
                   poolVars, bestVars, calls, solvedBy, memoW>>

(* Fit, lines 470-473, and processLastVariable, lines 586-597 *)
ProcessLastVariable ==
    /\ pc = "loop"
    /\ Len(Order) < p
    /\ countActive(remaining) = 1
    /\ LET j == CHOOSE q \in Active(remaining) :
                    \A r \in Active(remaining) : q <= r
       IN \E m \in LastMSEChoices(j) :
            /\ Order' = Append(Order, j)
            /\ Residuals' = [Residuals EXCEPT ![Len(Order) + 1] = m]
            /\ remaining' = [remaining EXCEPT ![j] = FALSE]
            /\ memoMSE' = Remember(memoMSE, <<{j}, j>>, m)
    /\ UNCHANGED ghostVars
    /\ UNCHANGED <<inputVars, pc, err, ret, stdDone, Adjacency, Weights,
                   poolVars, bestVars, calls, solvedBy, memoW>>

(* processVariables, lines 601-603: new channel, WaitGroup and semaphore *)
ProcessVariablesBegin ==
    /\ pc = "loop"
    /\ Len(Order) < p
    /\ countActive(remaining) # 1
    /\ dj' = 0
    /\ task' = [j \in Cols |-> "idle"]
    /\ minMSE' = MaxFloat64 /\ minSet' = {}
    /\ sem' = 0 /\ wg' = 0 /\ results' = <<>> /\ closed' = FALSE
    /\ bestVar' = NoVar /\ bestMSE' = MaxFloat64 /\ bestWeights' = <<>>
    /\ otherW' = <<>>
    /\ pc' = "dispatch"
    /\ got' = [j \in Cols |-> 0]
    /\ fitArgs' = [j \in Cols |-> <<>>]
    /\ UNCHANGED <<fitW, barriers>>
    /\ UNCHANGED <<inputVars, err, ret, stdDone, remaining, resultVars,
                   calls, solvedBy, memoVars>>

(* processVariables, lines 605-613: skip the inactive columns, then        *)
(* wg.Add(1), acquire a slot of sem, start the goroutine for column j      *)
Dispatch ==
    /\ pc = "dispatch"
    /\ \E j \in Active(remaining) :
        /\ j >= dj
        /\ \A q \in Active(remaining) : q >= dj => j <= q
        /\ CanAcquire(sem, workers)
        /\ wg' = wg + 1
        /\ sem' = sem + 1
        /\ task' = [task EXCEPT ![j] = "running"]
        /\ dj' = j + 1
    /\ UNCHANGED ghostVars
    /\ UNCHANGED <<inputVars, pc, err, ret, stdDone, remaining, resultVars,
                   minMSE, minSet, results, closed, bestVars, calls, solvedBy,
                   memoVars>>

\* processVariables closes the channel itself when its loop ends
ProcessVariablesReturn_ClosesAtOnce ==
    /\ pc = "dispatch"
    /\ \A q \in Active(remaining) : q < dj
    /\ dj' = p
    /\ closed' = TRUE
    /\ pc' = "collect"
    /\ UNCHANGED ghostVars
    /\ UNCHANGED <<inputVars, err, ret, stdDone, remaining, resultVars,
                   task, minMSE, minSet, sem, wg, results, bestVars,
                   calls, solvedBy, memoVars>>

(* processVariables, lines 605-608 and 641-646: the loop ends, the closing *)
(* goroutine is started and the channel is handed to findBestVariable      *)
ProcessVariablesReturn ==
    /\ pc = "dispatch"
    /\ \A q \in Active(remaining) : q < dj
    /\ dj' = p
    /\ pc' = "collect"
    /\ UNCHANGED ghostVars
    /\ UNCHANGED <<inputVars, err, ret, stdDone, remaining, resultVars,
                   task, minMSE, minSet, sem, wg, results, closed, bestVars,
                   calls, solvedBy, memoVars>>

\* bookkeeping of the least mse among the results sent in this iteration
Sent(j, m) ==
    /\ minMSE' = IF m < minMSE THEN m ELSE minMSE
    /\ minSet' = IF m < minMSE THEN {j}
                 ELSE IF m = minMSE THEN minSet \cup {j} ELSE minSet

(* goroutine of column j, lines 617-637: prepareData, regressor.Fit,       *)
(* calculateResiduals, computeMSE, send on results.  Of the weights of a    *)
(* result only whether they are nil or the vector of the fit is kept.       *)
TaskRun(j) ==
    /\ task[j] = "running"
    /\ Len(results) < p
    /\ IF NoPredictors(remaining)
       THEN /\ results' = Append(results, [idx |-> j, mse |-> MaxFloat64,
                                            weights |-> "nil"])
            /\ Sent(j, MaxFloat64)
            /\ UNCHANGED <<calls, solvedBy, memoMSE, fitArgs>>
       ELSE \E m \in MSEChoices(Active(remaining), j) :
            /\ results' = Append(results, [idx |-> j, mse |-> m,
                                            weights |-> "fit"])
            /\ Sent(j, m)
            /\ calls' = calls + 1
            /\ solvedBy' = solvedBy \cup {regressor}
            /\ fitArgs' = [fitArgs EXCEPT ![j] = prepareData(remaining, j)]
            /\ memoMSE' = Remember(memoMSE, <<Active(remaining), j>>, m)
    /\ task' = [task EXCEPT ![j] = "sent"]
    /\ UNCHANGED <<fitW, got, barriers>>
    /\ UNCHANGED <<inputVars, pc, err, ret, stdDone, remaining, resultVars,
                   dj, sem, wg, closed, bestVars, memoW>>

(* goroutine of column j, line 615: deferred <-sem *)
TaskRelease(j) ==
    /\ task[j] = "sent"
    /\ sem' = sem - 1
    /\ task' = [task EXCEPT ![j] = "released"]
    /\ UNCHANGED ghostVars
    /\ UNCHANGED <<inputVars, pc, err, ret, stdDone, remaining, resultVars,
                   dj, minMSE, minSet, wg, results, closed, bestVars, calls, solvedBy,
                   memoVars>>

(* goroutine of column j, line 614: deferred wg.Done() *)
TaskDone(j) ==
    /\ task[j] = "released"
    /\ wg' = wg - 1
    /\ task' = [task EXCEPT ![j] = "done"]
    /\ UNCHANGED ghostVars
    /\ UNCHANGED <<inputVars, pc, err, ret, stdDone, remaining, resultVars,
                   dj, minMSE, minSet, sem, results, closed, bestVars, calls, solvedBy,
                   memoVars>>

\* the channel is closed without wg.Wait()
CloseResults_NoWait ==
    /\ pc = "collect"
    /\ ~closed
    /\ closed' = TRUE
    /\ barriers' = barriers + 1
    /\ UNCHANGED <<fitW, got, fitArgs>>
    /\ UNCHANGED <<inputVars, pc, err, ret, stdDone, remaining, resultVars,
                   dj, task, minMSE, minSet, sem, wg, results, bestVars, calls, solvedBy,
                   memoVars>>

\* the channel is closed as soon as one task is done
CloseResults_AfterFirstDone ==
    /\ pc = "collect"
    /\ ~closed
    /\ \E j \in Cols : task[j] = "done"
    /\ closed' = TRUE
    /\ barriers' = barriers + 1
    /\ UNCHANGED <<fitW, got, fitArgs>>
    /\ UNCHANGED <<inputVars, pc, err, ret, stdDone, remaining, resultVars,
                   dj, task, minMSE, minSet, sem, wg, results, bestVars, calls, solvedBy,
                   memoVars>>

(* closing goroutine, lines 641-644: wg.Wait(); close(results) *)
CloseResults ==
    /\ pc = "collect"
    /\ ~closed
    /\ wg = 0
    /\ closed' = TRUE
    /\ barriers' = barriers + 1
    /\ UNCHANGED <<fitW, got, fitArgs>>
    /\ UNCHANGED <<inputVars, pc, err, ret, stdDone, remaining, resultVars,
                   dj, task, minMSE, minSet, sem, wg, results, bestVars, calls, solvedBy,
                   memoVars>>

(* findBestVariable, lines 655-661: one iteration of range results *)
Receive ==
    /\ pc = "collect"
    /\ results # <<>>
    /\ LET res == Head(results)
       IN IF Better(res.mse, bestMSE)
          THEN /\ bestMSE' = res.mse
               /\ bestVar' = res.idx
          ELSE UNCHANGED <<bestMSE, bestVar>>
    /\ results' = Tail(results)
    /\ got' = [got EXCEPT ![Head(results).idx] = @ + 1]
    /\ UNCHANGED <<fitW, barriers, fitArgs>>
    /\ UNCHANGED <<inputVars, pc, err, ret, stdDone, remaining, resultVars,
                   dj, task, minMSE, minSet, sem, wg, closed, bestWeights, otherW,
                   calls, solvedBy, memoVars>>

(* findBestVariable, line 662, and updateResults, lines 666-687, when a    *)
(* result was selected.  wf are the weights of the selected result, read   *)
(* here for the first time; ow[q] is the weight of predictor bestVar in    *)
(* the result of target q, which findBestVariable received and dropped: no *)
(* later step reads it, so it is kept only until the next iteration.       *)
UpdateResults ==
    /\ pc = "collect"
    /\ results = <<>> /\ closed
    /\ bestVar # NoVar
    /\ LET S == Active(remaining)
           P == Predictors(remaining, bestVar)
       IN \E wf \in [P -> WeightValues], ow \in [P -> WeightValues] :
            /\ \A q \in P : wf[q] \in WChoices(S, bestVar, q)
            /\ \A q \in P : ow[q] \in WChoices(S, q, bestVar)
            /\ bestWeights' = WeightSeq(remaining, bestVar, wf)
            /\ otherW' = ow
            /\ fitW' = [fitW EXCEPT ![bestVar] =
                            [j \in Cols |-> IF j \in P THEN wf[j] ELSE 0]]
            /\ memoW' = RememberW(memoW, S, bestVar, wf)
            /\ Order' = Append(Order, bestVar)
            /\ Residuals' = [Residuals EXCEPT ![Len(Order) + 1] = bestMSE]
            /\ Adjacency' = NewAdjacency(Adjacency, remaining, bestVar,
                                         bestWeights')
            /\ Weights' = NewWeights(Weights, remaining, bestVar,
                                     bestWeights')
            /\ remaining' = MarkProcessed(remaining, bestVar)
    /\ pc' = "loop"
    /\ UNCHANGED <<inputVars, err, ret, stdDone, poolVars, bestVar, bestMSE,
                   calls, solvedBy, memoMSE, traceVars>>

(* findBestVariable, line 662, and updateResults, lines 668-678, when no   *)
(* result was selected: bestVar = -1 is appended to Order, bestWeights is  *)
(* nil and bestWeights[0] panics (index out of range)                      *)
UpdateResultsPanic ==
    /\ pc = "collect"
    /\ results = <<>> /\ closed
    /\ bestVar = NoVar
    /\ Order' = Append(Order, bestVar)
    /\ Residuals' = [Residuals EXCEPT ![Len(Order) + 1] = bestMSE]
    /\ pc' = "panicked"
    /\ UNCHANGED ghostVars
    /\ UNCHANGED <<inputVars, err, ret, stdDone, remaining, Adjacency,
                   Weights, poolVars, bestVars, calls, solvedBy, memoVars>>

(* the caller calls Fit again on the same input, with a SURD built by New  *)
(* from a config that may differ in Workers                                *)
FitAgain(w) ==
    /\ pair /\ run = 1
    /\ pc = "returned"
    /\ prev' = <<[Order |-> Order, Adjacency |-> Adjacency,
                  Weights |-> Weights, workers |-> workers]>>
    /\ run' = 2
    /\ workers' = w
    /\ pc' = "call" /\ err' = "none" /\ ret' = "none" /\ calls' = 0
    /\ solvedBy' = {}
    /\ Order' = <<>> /\ Residuals' = <<>> /\ Adjacency' = <<>>
    /\ Weights' = <<>> /\ remaining' = <<>> /\ stdDone' = FALSE
    /\ fitW' = <<>>
    /\ got' = <<>> /\ barriers' = 0 /\ fitArgs' = <<>>
    /\ dj' = 0 /\ task' = <<>> /\ minMSE' = MaxFloat64 /\ minSet' = {}
    /\ sem' = 0 /\ wg' = 0
    /\ results' = <<>> /\ closed' = FALSE
    /\ bestVar' = NoVar /\ bestMSE' = MaxFloat64 /\ bestWeights' = <<>>
    /\ otherW' = <<>>
    /\ UNCHANGED <<xnil, n, p, stdNaN, regressor, pair, memoVars, outsideFit>>

(* SetRegressor, lines 421-423, called before Fit *)
SetRegressor ==
    /\ pc = "call"
    /\ regressor' = "custom"
    /\ UNCHANGED <<xnil, n, p, stdNaN, workers, pair, run, prev, pc, err, ret,
                   stdDone, remaining, resultVars, poolVars, bestVars,
                   ghostVars, calls, solvedBy, memoVars, outsideFit>>

----------------------------------------------------------------------------
(* Construction *)

\* a zero Lambda is kept, as NewLASSO keeps it
NewConfig_KeepsZeroLambda(cfg) ==
    [Lambda    |-> IF cfg.Lambda < 0 THEN DefaultLambda ELSE cfg.Lambda,
     Tolerance |-> IF cfg.Tolerance <= 0 THEN DefaultTolerance
                   ELSE cfg.Tolerance,
     MaxIter   |-> IF cfg.MaxIter <= 0 THEN DefaultMaxIter ELSE cfg.MaxIter,
     Workers   |-> IF cfg.Workers <= 0 THEN DefaultWorkers ELSE cfg.Workers]

\* New, lines 393-405: the value of cfg after the four tests
NewConfig(cfg) ==
    [Lambda    |-> IF cfg.Lambda <= 0 THEN DefaultLambda ELSE cfg.Lambda,
     Tolerance |-> IF cfg.Tolerance <= 0 THEN DefaultTolerance
                   ELSE cfg.Tolerance,
     MaxIter   |-> IF cfg.MaxIter <= 0 THEN DefaultMaxIter ELSE cfg.MaxIter,
     Workers   |-> IF cfg.Workers <= 0 THEN DefaultWorkers ELSE cfg.Workers]

\* a zero Lambda is replaced by the default, as New replaces it
NewLASSO_DefaultsZeroLambda(cfg) ==
    [Lambda    |-> IF cfg.Lambda <= 0 THEN LASSODefaultLambda ELSE cfg.Lambda,
     Tolerance |-> IF cfg.Tolerance <= 0 THEN LASSODefaultTolerance
                   ELSE cfg.Tolerance,
     MaxIter   |-> IF cfg.MaxIter <= 0 THEN LASSODefaultMaxIter
                   ELSE cfg.MaxIter]

\* NewLASSO, lasso.go lines 27-39: the config of the LASSO it returns
NewLASSO(cfg) ==
    [Lambda    |-> IF cfg.Lambda < 0 THEN LASSODefaultLambda ELSE cfg.Lambda,
     Tolerance |-> IF cfg.Tolerance <= 0 THEN LASSODefaultTolerance
                   ELSE cfg.Tolerance,
     MaxIter   |-> IF cfg.MaxIter <= 0 THEN LASSODefaultMaxIter
                   ELSE cfg.MaxIter]

InitNew ==
    /\ cfgIn \in [Lambda : CfgValues, Tolerance : CfgValues,
                  MaxIter : CfgValues, Workers : CfgValues]
    /\ config = NoConfig /\ lasso = NoLASSO
    /\ pc = "new"
    /\ FitUnused /\ LassoUnused /\ SoftUnused /\ StdUnused

(* New, lines 391-417 *)
New ==
    /\ pc = "new"
    /\ config' = NewConfig(cfgIn)
    /\ lasso' = NewLASSO([Lambda    |-> config'.Lambda,
                          Tolerance |-> config'.Tolerance,
                          MaxIter   |-> config'.MaxIter])
    /\ pc' = "built"
    /\ UNCHANGED <<cfgIn, fitRest, stdVars, lassoVars, softVars>>

NextNew == New

SpecNew == InitNew /\ [][NextNew]_vars

----------------------------------------------------------------------------
(* float64 in exact arithmetic: fractions in lowest terms *)

RECURSIVE GCD(_, _)
GCD(a, b) == IF b = 0 THEN a ELSE GCD(b, a % b)

\* the fraction a/b, b # 0
Rat(a, b) ==
    LET g == GCD(Abs(a), Abs(b))
        sg == IF b < 0 THEN -1 ELSE 1
    IN <<(sg * a) \div g, (sg * b) \div g>>

Zero == <<0, 1>>

\* common factors are taken out before the products are formed
RAdd(u, v) ==
    LET g == GCD(u[2], v[2])
    IN Rat(u[1] * (v[2] \div g) + v[1] * (u[2] \div g),
           (u[2] \div g) * v[2])
RNeg(u) == <<-u[1], u[2]>>
RSub(u, v) == RAdd(u, RNeg(v))
RMul(u, v) ==
    LET a == Rat(u[1], v[2])
        b == Rat(v[1], u[2])
    IN <<a[1] * b[1], a[2] * b[2]>>
RInv(u) == IF u[1] < 0 THEN <<-u[2], -u[1]>> ELSE <<u[2], u[1]>>
RDiv(u, v) == RMul(u, RInv(v))
RLess(u, v) ==
    LET g == GCD(u[2], v[2])
    IN u[1] * (v[2] \div g) < v[1] * (u[2] \div g)
RAbs(u) == <<Abs(u[1]), u[2]>>

\* floats.Dot
RECURSIVE DotTo(_, _, _)
DotTo(u, v, i) ==
    IF i = 0 THEN Zero ELSE RAdd(DotTo(u, v, i - 1), RMul(u[i], v[i]))

Dot(u, v) == DotTo(u, v, Len(u))

\* floats.AddScaled(dst, alpha, s): dst + alpha * s
AddScaled(dst, alpha, sv) ==
    [i \in 1..Len(dst) |-> RAdd(dst[i], RMul(alpha, sv[i]))]

----------------------------------------------------------------------------
(* regression.LASSO, lasso.go *)

\* the literal 1e-12 of lines 62-63 and of line 86
NormFloor == <<1, 8>>
DeltaMin == <<1, 8>>
\* config.Tolerance and config.Lambda as float64
ToleranceOf(t) == Rat(t, 4)
LambdaOf(l) == Rat(l, 2)

\* entries of X and of y
XValues == {<<0, 1>>, <<1, 4>>, <<2, 1>>}
YValues == {<<-1, 1>>, <<1, 4>>, <<2, 1>>}
LassoRows == {1, 2}
LassoCols == {1, 2}

\* the test 'lambda = 0 (perfect fit)' of TestLASSOFit
TestX == << <<Rat(1, 1), Rat(2, 1), Rat(3, 1)>> >>
TestY == <<Rat(2, 1), Rat(4, 1), Rat(6, 1)>>

\* line 110 with the sign of line 108: z - lambda for a z below -lambda
softThreshold_SignSlip(z, lambda) ==
    IF RLess(lambda, z) THEN RSub(z, lambda)
    ELSE IF RLess(z, RNeg(lambda)) THEN RSub(z, lambda)
    ELSE Zero

\* softThreshold without its default case: z - lambda for every z
softThreshold_NoDeadZone(z, lambda) == RSub(z, lambda)

\* softThreshold, lines 105-114
softThreshold(z, lambda) ==
    IF RLess(lambda, z) THEN RSub(z, lambda)
    ELSE IF RLess(z, RNeg(lambda)) THEN RAdd(z, lambda)
    ELSE Zero

\* lines 61-64: the squared norm of a column, floored
NormOf(col) ==
    IF RLess(Dot(col, col), NormFloor) THEN NormFloor ELSE Dot(col, col)

(* LASSO.Fit, lines 43-101, as a function of its arguments: st holds the    *)
(* weights w, the residual r and maxChange mc                              *)
\* lines 76-92, one coordinate
CoordinateStep(st, l, cs, j) ==
    LET oldWeight == st.w[j]
        xDotR == RAdd(Dot(cs[j], st.r), RMul(oldWeight, NormOf(cs[j])))
        newWeight == RDiv(softThreshold(xDotR, LambdaOf(l.Lambda)),
                          NormOf(cs[j]))
        delta == RSub(newWeight, oldWeight)
    IN IF RLess(DeltaMin, RAbs(delta))
       THEN [w  |-> [st.w EXCEPT ![j] = newWeight],
             r  |-> AddScaled(st.r, RNeg(delta), cs[j]),
             mc |-> IF RLess(st.mc, RAbs(delta)) THEN RAbs(delta) ELSE st.mc]
       ELSE st

\* line 75, the loop over j from coordinate j on
RECURSIVE SweepFrom(_, _, _, _)
SweepFrom(st, l, cs, j) ==
    IF j > Len(cs) THEN st
    ELSE SweepFrom(CoordinateStep(st, l, cs, j), l, cs, j + 1)

\* lines 72-100, the loop over iter from sweep it on
RECURSIVE SweepsFrom(_, _, _, _, _)
SweepsFrom(w, r, l, cs, it) ==
    IF it >= l.MaxIter THEN w
    ELSE LET st == SweepFrom([w |-> w, r |-> r, mc |-> Zero], l, cs, 1)
         IN IF RLess(st.mc, ToleranceOf(l.Tolerance)) THEN st.w
            ELSE SweepsFrom(st.w, st.r, l, cs, it + 1)

\* the weights returned for the columns cs and the target t, X # nil
LassoFitOf(l, cs, t) ==
    IF Len(cs) = 0 THEN <<>>
    ELSE SweepsFrom([j \in 1..Len(cs) |-> Zero], t, l, cs, 0)

InitLasso ==
    /\ lassoIn \in [Lambda : {-1, 0, 1}, Tolerance : {0, 2},
                    MaxIter : 1..LassoMaxIter]
    /\ lasso = NoLASSO
    /\ \/ /\ Xnil = TRUE /\ cols = <<>> /\ y \in [1..1 -> YValues]
       \/ /\ Xnil = FALSE /\ cols = <<>> /\ y = <<>>
       \/ /\ Xnil = FALSE /\ cols = TestX /\ y = TestY
       \/ /\ Xnil = FALSE
          /\ \E r \in LassoRows, k \in LassoCols :
                /\ cols \in [1..k -> [1..r -> XValues]]
                /\ y \in [1..r -> YValues]
    /\ NoLassoLocals
    /\ cfgIn = NoConfig /\ config = NoConfig
    /\ pc = "newlasso"
    /\ FitUnused /\ SoftUnused /\ StdUnused

(* NewLASSO, lines 27-39 *)
NewLASSOCall ==
    /\ pc = "newlasso"
    /\ lasso' = NewLASSO(lassoIn)
    /\ pc' = "lassofit"
    /\ UNCHANGED <<cfgIn, config, fitRest, stdVars, lassoArgs, lassoLocals, lret,
                   softVars>>

(* LASSO.Fit, lines 43-69: the early returns, the cache of the columns and *)
(* of their norms, residual = y                                            *)
LassoFitBegin ==
    /\ pc = "lassofit"
    /\ IF Xnil
       THEN /\ lret' = [isNil |-> TRUE, vec |-> <<>>]
            /\ pc' = "lassoret"
            /\ UNCHANGED lassoLocals
       ELSE IF Len(cols) = 0
       THEN /\ lret' = [isNil |-> FALSE, vec |-> <<>>]
            /\ pc' = "lassoret"
            /\ UNCHANGED lassoLocals
       ELSE /\ weights' = [j \in 1..Len(cols) |-> Zero]
            /\ norms' = [j \in 1..Len(cols) |-> NormOf(cols[j])]
            /\ residual' = y
            /\ iter' = 0
            /\ pc' = "sweep"
            /\ UNCHANGED <<lj, maxChange, sweepW, lNewWeight, lDelta, lret>>
    /\ UNCHANGED <<newVars, fitRest, stdVars, softVars, lassoArgs>>

(* line 72, the condition holds, and line 73 *)
LassoSweep ==
    /\ pc = "sweep"
    /\ iter < lasso.MaxIter
    /\ maxChange' = Zero
    /\ lj' = 1
    /\ sweepW' = weights
    /\ pc' = "coord"
    /\ UNCHANGED <<newVars, fitRest, stdVars, softVars, lassoArgs, weights, norms, residual,
                   iter, lNewWeight, lDelta, lret>>

(* lines 75-93: one pass through the body of the loop over j *)
LassoCoordinate ==
    /\ pc = "coord"
    /\ lj <= Len(cols)
    /\ LET oldWeight == weights[lj]
           xDotR == RAdd(Dot(cols[lj], residual),
                         RMul(oldWeight, norms[lj]))
           newWeight == RDiv(softThreshold(xDotR, LambdaOf(lasso.Lambda)),
                             norms[lj])
           delta == RSub(newWeight, oldWeight)
       IN IF RLess(DeltaMin, RAbs(delta))
          THEN /\ residual' = AddScaled(residual, RNeg(delta), cols[lj])
               /\ weights' = [weights EXCEPT ![lj] = newWeight]
               /\ maxChange' = IF RLess(maxChange, RAbs(delta))
                                THEN RAbs(delta) ELSE maxChange
          ELSE UNCHANGED <<residual, weights, maxChange>>
    /\ lj' = lj + 1
    /\ UNCHANGED <<newVars, fitRest, stdVars, softVars, lassoArgs, norms, iter, pc,
                   sweepW, lNewWeight, lDelta, lret>>

\* the sweeps go on whatever the change of the last one was
LassoCheck_NeverBreaks ==
    /\ pc = "coord"
    /\ lj > Len(cols)
    /\ iter' = iter + 1
    /\ pc' = "sweep"
    /\ UNCHANGED lret
    /\ UNCHANGED <<newVars, fitRest, stdVars, softVars, lassoArgs, weights,
                   norms, residual, lj, maxChange, sweepW, lNewWeight, lDelta>>

(* lines 75 and 95-98, 72: the loop over j ends; break when the sweep      *)
(* changed less than Tolerance, else iter++                                *)
LassoCheck ==
    /\ pc = "coord"
    /\ lj > Len(cols)
    /\ IF RLess(maxChange, ToleranceOf(lasso.Tolerance))
       THEN /\ lret' = [isNil |-> FALSE, vec |-> weights]
            /\ pc' = "lassoret"
            /\ UNCHANGED iter
       ELSE /\ iter' = iter + 1
            /\ pc' = "sweep"
            /\ UNCHANGED lret
    /\ UNCHANGED <<newVars, fitRest, stdVars, softVars, lassoArgs, weights, norms, residual,
                   lj, maxChange, sweepW, lNewWeight, lDelta>>

(* lines 72 and 100: MaxIter sweeps were made, return weights *)
LassoReturn ==
    /\ pc = "sweep"
    /\ ~(iter < lasso.MaxIter)
    /\ lret' = [isNil |-> FALSE, vec |-> weights]
    /\ pc' = "lassoret"
    /\ UNCHANGED <<newVars, fitRest, stdVars, softVars, lassoArgs, lassoLocals>>

NextLasso ==
    \/ NewLASSOCall
    \/ LassoFitBegin
    \/ LassoSweep
    \/ LassoCoordinate
    \/ LassoCheck
    \/ LassoReturn

SpecLasso == InitLasso /\ [][NextLasso]_vars

\* LASSO.Fit is sequential code: a step that can be taken is taken.  For
\* the two steps that do the arithmetic, weak fairness is written with the
\* enabling condition in place of ENABLED.
SpecLassoFair ==
    /\ SpecLasso
    /\ WF_vars(NewLASSOCall)
    /\ []<>~(pc = "lassofit") \/ []<><<LassoFitBegin>>_vars
    /\ WF_vars(LassoSweep)
    /\ []<>~(pc = "coord" /\ lj <= Len(cols)) \/ []<><<LassoCoordinate>>_vars
    /\ WF_vars(LassoCheck)
    /\ WF_vars(LassoReturn)

----------------------------------------------------------------------------
(* softThreshold called on its own *)

\* z: halves between -3 and 3; lambda: what NewLASSO leaves in
\* l.config.Lambda, which is never negative
SoftZ == {Rat(k, 2) : k \in -6..6}
SoftLambda == {Rat(k, 2) : k \in 0..5}

InitSoft ==
    /\ stZ \in SoftZ
    /\ stLambda \in SoftLambda
    /\ stOut = Zero
    /\ pc = "soft"
    /\ FitUnused /\ NewUnused /\ LassoUnused /\ StdUnused

(* line 82: softThreshold(xDotR, l.config.Lambda) *)
SoftThresholdCall ==
    /\ pc = "soft"
    /\ stOut' = softThreshold(stZ, stLambda)
    /\ pc' = "softret"
    /\ UNCHANGED <<stZ, stLambda, fitRest, stdVars, newVars, lassoVars>>

NextSoft == SoftThresholdCall

SpecSoft == InitSoft /\ [][NextSoft]_vars

----------------------------------------------------------------------------
(* standardize, followed entry by entry.                                   *)
(*                                                                         *)
(* A float64 is a fraction again, now rounded after every operation to a   *)
(* small binary format: three significant bits, least positive value 1/8,  *)
(* greatest finite value 14, round to nearest, ties to even, overflow to   *)
(* an infinity.  <<1, 0>> and <<-1, 0>> are the infinities, <<0, 0>> is    *)
(* the NaN.  The constant 1e-12 of line 560 is 1/8 as in lasso.go.         *)

StdMaxN == 3       \* rows of the matrix whose entries are followed: 1..
StdMaxP == 2       \* columns of that matrix: 1..

Exponents == 0..4
PosInf == <<1, 0>>
NegInf == <<-1, 0>>
NotANumber == <<0, 0>>

IsNaN(u) == u = NotANumber
IsInf(u) == u = PosInf \/ u = NegInf
IsFinite(u) == u[2] # 0

\* the non-negative finite values of the format
FloatGrid ==
    {Rat(m * 2^e, 8) : m \in 4..7, e \in Exponents} \cup {Rat(m, 8) : m \in 0..3}

\* the exponent of the rounding of a > 0: the greatest one whose least
\* value 4 * 2^e / 8 is not above a; 0 below the normal range
ExpOf(a) ==
    CHOOSE e \in Exponents :
        /\ e = 0 \/ ~RLess(a, Rat(4 * 2^e, 8))
        /\ \A f \in Exponents : f > e => RLess(a, Rat(4 * 2^f, 8))

\* round a > 0 to the format
RoundPos(a) ==
    LET u == Rat(2^ExpOf(a), 8)
        t == RDiv(a, u)
        k == t[1] \div t[2]
        r == RSub(t, <<k, 1>>)
        up == RLess(<<1, 2>>, r) \/ (r = <<1, 2>> /\ k % 2 = 1)
    IN IF ~RLess(a, <<15, 1>>) THEN PosInf
       ELSE RMul(<<IF up THEN k + 1 ELSE k, 1>>, u)

Round(q) ==
    IF q[1] = 0 THEN Zero
    ELSE IF q[1] < 0 THEN RNeg(RoundPos(RAbs(q)))
    ELSE RoundPos(q)

\* the operations of float64 that standardize uses
FNeg(u) == <<-u[1], u[2]>>

FAdd(u, v) ==
    IF IsNaN(u) \/ IsNaN(v) THEN NotANumber
    ELSE IF IsInf(u) /\ IsInf(v) THEN IF u = v THEN u ELSE NotANumber
    ELSE IF IsInf(u) THEN u
    ELSE IF IsInf(v) THEN v
    ELSE Round(RAdd(u, v))

FSub(u, v) == FAdd(u, FNeg(v))

SignOf(u) == IF u[1] < 0 THEN -1 ELSE 1

FMul(u, v) ==
    IF IsNaN(u) \/ IsNaN(v) THEN NotANumber
    ELSE IF IsInf(u) \/ IsInf(v)
    THEN IF u = Zero \/ v = Zero THEN NotANumber
         ELSE <<SignOf(u) * SignOf(v), 0>>
    ELSE Round(RMul(u, v))

FDiv(u, v) ==
    IF IsNaN(u) \/ IsNaN(v) THEN NotANumber
    ELSE IF IsInf(u) THEN IF IsInf(v) THEN NotANumber
                          ELSE <<SignOf(u) * SignOf(v), 0>>
    ELSE IF IsInf(v) THEN Zero
    ELSE IF v = Zero THEN IF u = Zero THEN NotANumber ELSE <<SignOf(u), 0>>
    ELSE Round(RDiv(u, v))

\* u < v of float64: false when one of them is the NaN
FLess(u, v) ==
    IF IsNaN(u) \/ IsNaN(v) \/ u = v THEN FALSE
    ELSE IF u = NegInf \/ v = PosInf THEN TRUE
    ELSE IF u = PosInf \/ v = NegInf THEN FALSE
    ELSE RLess(u, v)

\* math.Sqrt: the value of the format nearest to the root, which is the
\* one that a lies on the same side of every squared midpoint as
FSqrt(u) ==
    IF IsNaN(u) \/ u[1] < 0 THEN NotANumber
    ELSE IF u = PosInf THEN PosInf
    ELSE CHOOSE g \in FloatGrid : \A h \in FloatGrid \ {g} :
            LET mid == RDiv(RAdd(g, h), <<2, 1>>)
            IN IF RLess(h, g) THEN ~RLess(u, RMul(mid, mid))
               ELSE RLess(u, RMul(mid, mid))

\* line 560: the least standard deviation of a column that is scaled
StdFloor == <<1, 8>>

\* the entries given to standardize: zero, two values whose threefold sum
\* is and is not in the format, and the greatest finite value
StdValues == {Zero, <<1, 1>>, <<3, 1>>, <<14, 1>>}

Rows == 0..(n - 1)

\* mat.Col(nil, j, M): a copy of column j
Col(M, j) == [i \in 1..n |-> M[i - 1][j]]

\* line 549: floats.Sum(col), the entries added in their order
RECURSIVE SumTo(_, _)
SumTo(col, i) == IF i = 0 THEN Zero ELSE FAdd(SumTo(col, i - 1), col[i])

Mean(col) == FDiv(SumTo(col, n), <<n, 1>>)

\* lines 552-556: the sum of the squared differences
RECURSIVE VarianceTo(_, _, _)
VarianceTo(col, mean, i) ==
    IF i = 0 THEN Zero
    ELSE LET diff == FSub(col[i], mean)
         IN FAdd(VarianceTo(col, mean, i - 1), FMul(diff, diff))

\* line 557
StdDev(col) == FSqrt(FDiv(VarianceTo(col, Mean(col), n), <<n, 1>>))

\* lines 548-569: the entries of column j after its iteration
StandardizedCol(M, j) ==
    LET col == Col(M, j)
        mean == Mean(col)
        stddev == StdDev(col)
    IN IF FLess(stddev, StdFloor)
       THEN [i \in Rows |-> Zero]
       ELSE [i \in Rows |-> FDiv(FSub(M[i][j], mean), stddev)]

\* Fit or standardize is called with a matrix of 1..StdMaxN rows and
\* 1..StdMaxP columns, or Fit with nil
InitStd ==
    /\ xnil \in BOOLEAN
    /\ n \in 1..StdMaxN
    /\ p \in 1..StdMaxP
    /\ IF xnil THEN n = 1 /\ p = 1 /\ inX = <<>> /\ pc = "call"
       ELSE /\ inX \in [Rows -> [Cols -> StdValues]]
            /\ pc \in {"call", "standardize"}
    /\ oldX = inX
    /\ stdX = <<>> /\ sj = 0
    /\ stdNaN = FALSE
    /\ workers = 1 /\ regressor = "lasso"
    /\ pair = FALSE /\ run = 1 /\ prev = <<>>
    /\ memoMSE = <<>> /\ memoW = <<>>
    /\ err = "none" /\ ret = "none" /\ calls = 0 /\ solvedBy = {}
    /\ NoResult /\ NoPool /\ NoBest
    /\ NewUnused /\ LassoUnused /\ SoftUnused

(* standardize, lines 543-545: stdX is a new matrix, a copy of X *)
StandardizeBegin ==
    /\ pc = "standardize"
    /\ stdX' = inX
    /\ sj' = 0
    /\ pc' = "stdcol"
    /\ UNCHANGED <<inX, oldX, fitRest, newVars, lassoVars, softVars>>

(* standardize, lines 547-570: one iteration of the loop over the columns *)
StandardizeColumn ==
    /\ pc = "stdcol"
    /\ sj < p
    /\ LET new == StandardizedCol(stdX, sj)
       IN stdX' = [i \in Rows |-> [stdX[i] EXCEPT ![sj] = new[i]]]
    /\ sj' = sj + 1
    /\ UNCHANGED <<pc, inX, oldX, fitRest, newVars, lassoVars, softVars>>

(* standardize, lines 547 and 571: the loop ends, stdX is returned *)
StandardizeReturn ==
    /\ pc = "stdcol"
    /\ ~(sj < p)
    /\ pc' = "standardized"
    /\ UNCHANGED <<stdVars, fitRest, newVars, lassoVars, softVars>>

NextStd ==
    \/ FitValidate
    \/ StandardizeBegin
    \/ StandardizeColumn
    \/ StandardizeReturn

SpecStd == InitStd /\ [][NextStd]_vars

----------------------------------------------------------------------------
(* LASSO.Fit in float64: the steps of lasso.go with every operation        *)
(* rounded to the format of the section above (three significant bits);    *)
(* 1e-12 is 1/8, Lambda and Tolerance are scaled as before                 *)

\* entries of X and of y in the format
FlXValues == {Zero, <<1, 1>>, <<3, 1>>}
FlYValues == {<<1, 1>>, <<2, 1>>}
FlRows == {1, 2}
FlCols == {1, 2}

FAbs(u) == <<Abs(u[1]), u[2]>>

\* floats.Dot: the products added in the order of the index
RECURSIVE FDotTo(_, _, _)
FDotTo(u, v, i) ==
    IF i = 0 THEN Zero ELSE FAdd(FDotTo(u, v, i - 1), FMul(u[i], v[i]))

FDot(u, v) == FDotTo(u, v, Len(u))

\* floats.AddScaled(dst, alpha, s): dst[i] += alpha * s[i]
FAddScaled(dst, alpha, sv) ==
    [i \in 1..Len(dst) |-> FAdd(dst[i], FMul(alpha, sv[i]))]

\* lines 61-64
FNormOf(col) ==
    IF FLess(FDot(col, col), NormFloor) THEN NormFloor ELSE FDot(col, col)

\* softThreshold, lines 105-114
FSoftThreshold(z, lambda) ==
    IF FLess(lambda, z) THEN FSub(z, lambda)
    ELSE IF FLess(z, FNeg(lambda)) THEN FAdd(z, lambda)
    ELSE Zero

InitLassoFl ==
    /\ lassoIn \in [Lambda : {0, 1}, Tolerance : {1, 2},
                    MaxIter : 1..LassoMaxIter]
    /\ lasso = NoLASSO
    /\ Xnil = FALSE
    /\ \E r \in FlRows, k \in FlCols :
          /\ cols \in [1..k -> [1..r -> FlXValues]]
          /\ y \in [1..r -> FlYValues]
    /\ NoLassoLocals
    /\ cfgIn = NoConfig /\ config = NoConfig
    /\ pc = "newlasso"
    /\ FitUnused /\ SoftUnused /\ StdUnused

(* lines 52-69: the weights, the norms of the columns, residual = y *)
LassoFitBeginFl ==
    /\ pc = "lassofit"
    /\ weights' = [j \in 1..Len(cols) |-> Zero]
    /\ norms' = [j \in 1..Len(cols) |-> FNormOf(cols[j])]
    /\ residual' = y
    /\ iter' = 0
    /\ pc' = "sweep"
    /\ UNCHANGED <<lj, maxChange, sweepW, lNewWeight, lDelta, lret>>
    /\ UNCHANGED <<newVars, fitRest, stdVars, softVars, lassoArgs>>

\* line 87 adds delta times the column instead of subtracting it
LassoCoordinateFl_AddsDelta ==
    /\ pc = "coord"
    /\ lj <= Len(cols)
    /\ \E dotR \in {FDot(cols[lj], residual)} :
       \E xDotR \in {FAdd(dotR, FMul(weights[lj], norms[lj]))} :
       \E st \in {FSoftThreshold(xDotR, LambdaOf(lasso.Lambda))} :
       \E newWeight \in {FDiv(st, norms[lj])} :
       \E delta \in {FSub(newWeight, weights[lj])} :
          /\ IF FLess(DeltaMin, FAbs(delta))
             THEN /\ residual' = FAddScaled(residual, delta, cols[lj])
                  /\ weights' = [weights EXCEPT ![lj] = newWeight]
                  /\ maxChange' = IF FLess(maxChange, FAbs(delta))
                                   THEN FAbs(delta) ELSE maxChange
             ELSE UNCHANGED <<residual, weights, maxChange>>
          /\ lNewWeight' = newWeight /\ lDelta' = delta
    /\ lj' = lj + 1
    /\ UNCHANGED <<newVars, fitRest, stdVars, softVars, lassoArgs, norms, iter, pc,
                   sweepW, lret>>

(* lines 75-93: one pass through the body of the loop over j; each value *)
(* is computed once, as in the code                                       *)
LassoCoordinateFl ==
    /\ pc = "coord"
    /\ lj <= Len(cols)
    /\ \E dotR \in {FDot(cols[lj], residual)} :
       \E xDotR \in {FAdd(dotR, FMul(weights[lj], norms[lj]))} :
       \E st \in {FSoftThreshold(xDotR, LambdaOf(lasso.Lambda))} :
       \E newWeight \in {FDiv(st, norms[lj])} :
       \E delta \in {FSub(newWeight, weights[lj])} :
          /\ IF FLess(DeltaMin, FAbs(delta))
             THEN /\ residual' = FAddScaled(residual, FNeg(delta), cols[lj])
                  /\ weights' = [weights EXCEPT ![lj] = newWeight]
                  /\ maxChange' = IF FLess(maxChange, FAbs(delta))
                                   THEN FAbs(delta) ELSE maxChange
             ELSE UNCHANGED <<residual, weights, maxChange>>
          /\ lNewWeight' = newWeight /\ lDelta' = delta
    /\ lj' = lj + 1
    /\ UNCHANGED <<newVars, fitRest, stdVars, softVars, lassoArgs, norms, iter, pc,
                   sweepW, lret>>

(* lines 75 and 95-98, 72: the loop over j ends *)
LassoCheckFl ==
    /\ pc = "coord"
    /\ lj > Len(cols)
    /\ IF FLess(maxChange, ToleranceOf(lasso.Tolerance))
       THEN /\ lret' = [isNil |-> FALSE, vec |-> weights]
            /\ pc' = "lassoret"
            /\ UNCHANGED iter
       ELSE /\ iter' = iter + 1
            /\ pc' = "sweep"
            /\ UNCHANGED lret
    /\ UNCHANGED <<newVars, fitRest, stdVars, softVars, lassoArgs, weights, norms, residual,
                   lj, maxChange, sweepW, lNewWeight, lDelta>>

NextLassoFl ==
    \/ NewLASSOCall
    \/ LassoFitBeginFl
    \/ LassoSweep
    \/ LassoCoordinateFl
    \/ LassoCheckFl
    \/ LassoReturn

SpecLassoFl == InitLassoFl /\ [][NextLassoFl]_vars

----------------------------------------------------------------------------
(* processVariables and findBestVariable called on their own, with any     *)
(* mask remaining: Fit never calls them with fewer than two active indices *)

InitTask ==
    /\ xnil = FALSE /\ n = 2 /\ stdNaN = FALSE
    /\ p \in 1..MaxP
    /\ workers \in 1..MaxWorkers
    /\ regressor = "lasso"
    /\ pair = FALSE /\ run = 1 /\ prev = <<>>
    /\ memoMSE = <<>> /\ memoW = <<>>
    /\ pc = "processVariables" /\ err = "none" /\ ret = "none"
    /\ calls = 0 /\ solvedBy = {}
    /\ stdDone = TRUE
    /\ Order = <<>>
    /\ Residuals = [k \in 1..p |-> 0]
    /\ Adjacency = [i \in Cols |-> [j \in Cols |-> FALSE]]
    /\ Weights = [i \in Cols |-> [j \in Cols |-> 0]]
    /\ fitW = [i \in Cols |-> [j \in Cols |-> 0]]
    /\ remaining \in [Cols -> BOOLEAN]
    /\ NoPool /\ NoBest
    /\ NewUnused /\ LassoUnused /\ SoftUnused /\ StdUnused

(* processVariables, lines 601-603, entered by a direct call; the locals   *)
(* of findBestVariable, lines 651-653, are set here as in the call by Fit  *)
ProcessVariablesCall ==
    /\ pc = "processVariables"
    /\ dj' = 0
    /\ task' = [j \in Cols |-> "idle"]
    /\ minMSE' = MaxFloat64 /\ minSet' = {}
    /\ sem' = 0 /\ wg' = 0 /\ results' = <<>> /\ closed' = FALSE
    /\ bestVar' = NoVar /\ bestMSE' = MaxFloat64 /\ bestWeights' = <<>>
    /\ otherW' = <<>>
    /\ pc' = "dispatch"
    /\ got' = [j \in Cols |-> 0]
    /\ fitArgs' = [j \in Cols |-> <<>>]
    /\ UNCHANGED <<fitW, barriers>>
    /\ UNCHANGED <<inputVars, err, ret, stdDone, remaining, resultVars,
                   calls, solvedBy, memoVars>>

(* findBestVariable, lines 655 and 662: the channel is closed and empty,   *)
(* bestVar, bestMSE and bestWeights are returned to the caller             *)
FindBestVariableReturn ==
    /\ pc = "collect"
    /\ results = <<>> /\ closed
    /\ pc' = "selected"
    /\ UNCHANGED fitRest
    /\ UNCHANGED outsideFit

NextTask ==
    \/ ProcessVariablesCall
    \/ Dispatch
    \/ ProcessVariablesReturn
    \/ \E j \in DOMAIN task : TaskRun(j)
    \/ \E j \in DOMAIN task : TaskRelease(j)
    \/ \E j \in DOMAIN task : TaskDone(j)
    \/ CloseResults
    \/ Receive
    \/ FindBestVariableReturn

SpecTask == InitTask /\ [][NextTask]_vars

----------------------------------------------------------------------------
Next ==
    \/ FitValidate
    \/ FitAllocate
    \/ FitReturn
    \/ ProcessLastVariable
    \/ ProcessVariablesBegin
    \/ Dispatch
    \/ ProcessVariablesReturn
    \/ \E j \in DOMAIN task : TaskRun(j)
    \/ \E j \in DOMAIN task : TaskRelease(j)
    \/ \E j \in DOMAIN task : TaskDone(j)
    \/ CloseResults
    \/ Receive
    \/ UpdateResults
    \/ UpdateResultsPanic

\* the second call uses any number of workers
NextPair == Next \/ \E w \in 1..MaxWorkers : FitAgain(w)

\* the second call is made on the same SURD
NextSame == Next \/ FitAgain(workers)

\* the caller may replace the regressor before it calls Fit
NextReg == Next \/ SetRegressor

Spec == Init /\ [][Next]_vars

SpecReg == Init /\ [][NextReg]_vars

SpecPair == InitPair /\ [][NextPair]_vars

SpecSame == InitPair /\ [][NextSame]_vars

----------------------------------------------------------------------------
(* Vocabulary of the properties *)

ValidInput == ~xnil /\ n >= 2 /\ p >= 1

Returned == pc = "returned"

ReturnedResult == pc = "returned" /\ err = "none"

\* i is placed in Order, and j is not placed at or before the place of i
Before(i, j) ==
    \E k \in 1..Len(Order) :
        /\ Order[k] = i
        /\ \A m \in 1..k : Order[m] # j

\* a selection was made by the last pass through findBestVariable
Selected == pc \in {"loop", "returned"} /\ bestVar # NoVar

\* the error kinds of the messages of Fit
ErrKind(e) ==
    IF e \in {"nil input matrix", "empty input matrix"} THEN "InvalidInput"
    ELSE IF e = "need at least 2 rows" THEN "InsufficientSamples"
    ELSE "none"

Holding == {j \in DOMAIN task : task[j] \in {"running", "sent"}}

Succ(X) == X \cup {j \in Cols : \E i \in X : Adjacency[i][j]}

RECURSIVE Closure(_, _)
Closure(X, k) == IF k = 0 THEN X ELSE Closure(Succ(X), k - 1)

ReachableFrom(i) == Closure({j \in Cols : Adjacency[i][j]}, p)

\* NewLASSO has returned
LassoBuilt == pc \in {"lassofit", "sweep", "coord", "lassoret"}

\* LASSO.Fit has returned a vector for a matrix of one column
ReturnedOneColumn == pc = "lassoret" /\ ~Xnil /\ Len(cols) = 1

\* the least-squares weight of the one predictor column x for the target t
OLSWeight(x, t) == RDiv(Dot(x, t), Dot(x, x))

\* no goroutine of the iteration is left: each was not started or is done
TasksFinished == \A j \in DOMAIN task : task[j] \in {"idle", "done"}

\* the goroutine of column j takes this step
TaskStep(j) ==
    task[j] \in {"running", "sent", "released"} /\ task'[j] # task[j]

\* this step writes result, remaining or stdX
WritesShared ==
    resultVars' # resultVars \/ remaining' # remaining \/ stdDone' # stdDone

\* the entries of a sequence
Range(sq) == {sq[k] : k \in 1..Len(sq)}

\* the run of Fit is over: it returned or it panicked
RunEnded == pc \in {"returned", "panicked"}

\* this step leaves findBestVariable: the selection is made
SelectionStep == pc = "collect" /\ pc' # "collect"

\* the greatest absolute difference of two weight vectors, entry by entry
MaxChangeOf(w1, w0) ==
    LET D == {RAbs(RSub(w1[j], w0[j])) : j \in DOMAIN w1} \cup {Zero}
    IN CHOOSE m \in D : \A d \in D : ~RLess(m, d)

\* the sequence sq without its entry j
RemoveAt(sq, j) ==
    [i \in 1..(Len(sq) - 1) |-> IF i < j THEN sq[i] ELSE sq[i + 1]]

\* every entry of the predictor column j is zero
ZeroColumn(j) == \A i \in DOMAIN cols[j] : cols[j][i] = Zero

\* the sum of w[j] * cs[j][i] over the coordinates 1..k, as a fraction
RECURSIVE FittedTo(_, _, _, _)
FittedTo(w, cs, i, k) ==
    IF k = 0 THEN Zero
    ELSE CHOOSE s \in {RAdd(a, b) : a \in {FittedTo(w, cs, i, k - 1)},
                                    b \in {RMul(w[k], cs[k][i])}} : TRUE

\* the running residual is the target minus the sum of weight times column
ResidualIsExact ==
    /\ \A j \in DOMAIN weights : IsFinite(weights[j])
    /\ \A i \in DOMAIN residual :
          /\ IsFinite(residual[i])
          /\ \A f \in {FittedTo(weights, cols, i, Len(cols))} :
                residual[i] = RSub(y[i], f)

\* this step is a pass through the body of the loop over j
CoordinateStepTaken == pc = "coord" /\ lj <= Len(cols) /\ lj' = lj + 1

\* the change of the coordinate of this step is applied (line 86)
DeltaApplied == FLess(DeltaMin, FAbs(lDelta'))

\* no operation of lines 85 and 87 rounds in this step: delta is the
\* difference of the two weights, each product and each sum of AddScaled is
\* the exact one
UpdateUnrounded ==
    /\ IsFinite(lNewWeight') /\ IsFinite(weights[lj]) /\ IsFinite(lDelta')
    /\ lDelta' = RSub(lNewWeight', weights[lj])
    /\ \A i \in DOMAIN residual :
          \A prod \in {FMul(FNeg(lDelta'), cols[lj][i])} :
             /\ IsFinite(residual[i]) /\ IsFinite(prod)
             /\ prod = RMul(RNeg(lDelta'), cols[lj][i])
             /\ \A sum \in {FAdd(residual[i], prod)} :
                   IsFinite(sum) /\ sum = RAdd(residual[i], prod)

\* every entry of column j of M is the same
ConstantColumn(M, j) == \A i \in Rows : M[i][j] = M[0][j]

\* M has the shape n x p of the input
SameShape(M) == DOMAIN M = Rows /\ \A i \in Rows : DOMAIN M[i] = Cols

----------------------------------------------------------------------------
\* C1: a Fit that returns without error returns an Order of length p that
\* contains each index 0..p-1 exactly once.
C1_OrderIsPermutation ==
    ReturnedResult =>
        /\ Len(Order) = p
        /\ {Order[k] : k \in 1..Len(Order)} = Cols

C1_Witness ==
    /\ ReturnedResult /\ p >= 3 /\ workers >= 2
    /\ Order[1] = p - 1 /\ Order[p] = 1

\* C2: when several candidates share the minimal MSE of an iteration, the
\* variable selected is the one with the lowest index among them.
C2_TieSelectsLowestIndex ==
    Selected => \A j \in minSet : bestVar <= j

\* C3: two calls of Fit on the same input with the same regressor, which
\* differ only in workers and in the scheduling, return the same Order.
C3_SameOrderForAnyWorkers ==
    (run = 2 /\ Returned) => Order = prev[1].Order

\* C4: with workers = 1 two calls of Fit on the same input return the same
\* Order, the same Adjacency and the same Weights, also when candidates tie.
C4_SequentialRunsAgree ==
    (run = 2 /\ Returned /\ workers = 1 /\ prev[1].workers = 1) =>
        /\ Order = prev[1].Order
        /\ Adjacency = prev[1].Adjacency
        /\ Weights = prev[1].Weights

C4_Witness ==
    /\ run = 2 /\ ReturnedResult /\ workers = 1 /\ prev[1].workers = 1
    /\ p >= 2
    /\ minMSE < MaxFloat64 /\ Cardinality(minSet) >= 2
    /\ \E i, j \in Cols : Adjacency[i][j]

\* C5: in every state of Fit every edge i -> j has i placed in Order before
\* j (j placed later or still active); there is no self-loop, no pair of
\* opposite edges and no directed cycle.
C5_EdgesFollowOrder ==
    stdDone =>
        /\ \A i, j \in Cols : Adjacency[i][j] => Before(i, j)
        /\ \A i \in Cols : ~Adjacency[i][i]
        /\ \A i, j \in Cols : ~(Adjacency[i][j] /\ Adjacency[j][i])
        /\ \A i \in Cols : i \notin ReachableFrom(i)

C5_Witness ==
    /\ ReturnedResult /\ p >= 3
    /\ Adjacency[2][0] /\ Adjacency[0][1] /\ Adjacency[2][1]

\* C6: Fit returns an InvalidInput error for an absent matrix and for n = 0
\* or p = 0, an InsufficientSamples error for n = 1 with p >= 1, and no
\* error for n >= 2 and p >= 1 (with Order = [0] when p = 1).
C6_ErrorTaxonomy ==
    Returned =>
        /\ ErrKind(err) =
              IF xnil \/ n = 0 \/ p = 0 THEN "InvalidInput"
              ELSE IF n < 2 THEN "InsufficientSamples"
              ELSE "none"
        /\ (err = "none") = (ErrKind(err) = "none")
        /\ (ValidInput /\ p = 1) => Order = <<0>>

C6_Witness ==
    /\ Returned /\ ~xnil /\ n = 1 /\ p = 0
    /\ ErrKind(err) = "InvalidInput"

\* C7: when Fit returns an error the result is nil and nothing was
\* standardized, dispatched or fitted; when it returns a result the error
\* is nil.
C7_ErrorOrResult ==
    /\ err # "none" =>
          /\ Returned /\ ret = "nil"
          /\ ~stdDone /\ task = <<>> /\ wg = 0 /\ results = <<>>
          /\ calls = 0 /\ Order = <<>> /\ Adjacency = <<>>
    /\ ret = "result" => (Returned /\ err = "none")
    /\ Returned => ((ret = "nil") = (err # "none"))

C7_Witness ==
    /\ Returned /\ ~xnil /\ n = 1 /\ p >= 2
    /\ err = "need at least 2 rows" /\ ret = "nil"

\* C8: on every valid input Fit performs exactly p iterations, each of
\* which appends one index to Order, and ends by returning when
\* len(Order) = p.
C8_CompletesAllIterations ==
    ValidInput =>
        /\ pc # "panicked"
        /\ \A k \in 1..Len(Order) : Order[k] \in Cols
        /\ Returned => Len(Order) = p

\* C9: the tasks that hold a slot of the semaphore are never more than
\* workers.
C9_BoundedWorkers ==
    /\ sem = Cardinality(Holding)
    /\ Cardinality(Holding) <= workers

C9_Witness ==
    /\ pc = "dispatch"
    /\ Cardinality(Holding) = workers
    /\ \E j \in Active(remaining) : j >= dj

\* C10 (as stated): Adjacency[i][j] holds iff i was selected before j and
\* the weight of predictor i in the fit of target j exceeds the tolerance.
C10_EdgeIffWeightOnLaterTarget ==
    Selected =>
        \A j \in DOMAIN otherW :
            Adjacency[bestVar][j] = (Abs(otherW[j]) > Tolerance)

\* C10 (amended): in the returned result Adjacency[i][j] holds iff i was
\* selected before j and the weight of predictor j in the fit of target i,
\* made in the step that selected i, exceeds the tolerance.
C10_EdgeIffSelectedFitWeight ==
    ReturnedResult =>
        \A i, j \in Cols :
            Adjacency[i][j] = (Before(i, j) /\ Abs(fitW[i][j]) > Tolerance)

C10_Witness ==
    /\ ReturnedResult /\ p >= 3
    /\ Adjacency[Order[1]][Order[3]] /\ ~Adjacency[Order[1]][Order[2]]
    /\ Order[1] > Order[3]

\* C11: in every iteration with two or more active variables the variable
\* appended to Order has the least MSE of the candidates of that iteration
\* and Residuals at the step position holds that MSE; after Fit Residuals
\* has length p and every entry is >= 0.
C11_ResidualIsLeastMSE ==
    /\ (pc = "loop" /\ bestVar # NoVar /\ countActive(remaining) >= 1) =>
          /\ bestVar \in minSet
          /\ Residuals[Len(Order)] = minMSE
    /\ ReturnedResult =>
          /\ Len(Residuals) = p
          /\ \A k \in 1..p : Residuals[k] # NaN /\ Residuals[k] >= 0

\* C12: after SetRegressor(r) every regression of Fit is solved by r and none
\* by the default solver; on every valid input with p >= 2 r is called once
\* for each active candidate of each iteration with two or more active
\* variables, and Fit returns a result without error.
C12_CustomRegressorSolvesAll ==
    (regressor = "custom" /\ ValidInput /\ p >= 2) =>
        /\ solvedBy \subseteq {"custom"}
        /\ pc # "panicked"
        /\ Returned =>
              /\ err = "none" /\ ret = "result"
              /\ solvedBy = {"custom"}
              /\ calls = (p * (p + 1)) \div 2 - 1

\* C13: New replaces every field of the Config that is zero or negative by
\* its default (Lambda 0.01, Tolerance 1e-5, MaxIter 1000, Workers 4) and
\* leaves every positive field unchanged; after New all four are positive
\* and the default LASSO holds exactly the Lambda, Tolerance and MaxIter of
\* s.config.
C13_DefaultsReplaceNonPositive ==
    pc = "built" =>
        /\ config.Lambda = IF cfgIn.Lambda > 0 THEN cfgIn.Lambda ELSE 1
        /\ config.Tolerance =
              IF cfgIn.Tolerance > 0 THEN cfgIn.Tolerance ELSE 1
        /\ config.MaxIter = IF cfgIn.MaxIter > 0 THEN cfgIn.MaxIter ELSE 1000
        /\ config.Workers = IF cfgIn.Workers > 0 THEN cfgIn.Workers ELSE 4
        /\ config.Lambda > 0 /\ config.Tolerance > 0
        /\ config.MaxIter > 0 /\ config.Workers > 0
        /\ lasso.Lambda = config.Lambda
        /\ lasso.Tolerance = config.Tolerance
        /\ lasso.MaxIter = config.MaxIter

C13_Witness ==
    /\ pc = "built"
    /\ cfgIn.Lambda = 0 /\ cfgIn.Tolerance = -1
    /\ cfgIn.MaxIter = 2 /\ cfgIn.Workers = 0
    /\ lasso.Lambda = 1 /\ lasso.MaxIter = 2 /\ config.Workers = 4

\* C14 (as stated): a LASSO built with Lambda = 0 keeps Lambda = 0; for one
\* non-zero predictor column x and any target y its Fit returns the one
\* weight dot(x,y)/dot(x,x); the vector returned has one weight for each
\* column.
C14_LambdaZeroGivesOLS ==
    /\ (LassoBuilt /\ lassoIn.Lambda = 0) => lasso.Lambda = 0
    /\ (ReturnedOneColumn /\ lasso.Lambda = 0
            /\ Dot(cols[1], cols[1]) # Zero) =>
          lret.vec = <<OLSWeight(cols[1], y)>>
    /\ (pc = "lassoret" /\ ~Xnil) => Len(lret.vec) = Len(cols)

\* C14 (amended): a LASSO built with Lambda = 0 keeps Lambda = 0; for one
\* predictor column x whose squared norm is not below the floor 1e-12 its
\* Fit returns the one weight dot(x,y)/dot(x,x) when that exceeds 1e-12 in
\* magnitude, and 0 when it does not; the vector returned has one weight
\* for each column.
C14_LambdaZeroGivesOLSAboveFloor ==
    /\ (LassoBuilt /\ lassoIn.Lambda = 0) => lasso.Lambda = 0
    /\ (ReturnedOneColumn /\ lasso.Lambda = 0
            /\ ~RLess(Dot(cols[1], cols[1]), NormFloor)) =>
          lret.vec = IF RLess(DeltaMin, RAbs(OLSWeight(cols[1], y)))
                     THEN <<OLSWeight(cols[1], y)>>
                     ELSE <<Zero>>
    /\ (pc = "lassoret" /\ ~Xnil) => Len(lret.vec) = Len(cols)

C14_Witness ==
    /\ pc = "lassoret" /\ lassoIn.Lambda = 0 /\ lasso.Lambda = 0
    /\ cols = TestX /\ y = TestY
    /\ lret.vec = <<Rat(2, 1)>>

\* C15: softThreshold(z, lambda) returns z - lambda when z > lambda,
\* z + lambda when z < -lambda and 0 otherwise; so it returns 0 for every
\* |z| <= lambda, z for lambda = 0, and for lambda >= 0 a result that has
\* neither the opposite sign of z nor a larger magnitude than z.
C15_SoftThresholdShrinks ==
    pc = "softret" =>
        /\ RLess(stLambda, stZ) => stOut = RSub(stZ, stLambda)
        /\ RLess(stZ, RNeg(stLambda)) => stOut = RAdd(stZ, stLambda)
        /\ (~RLess(stLambda, stZ) /\ ~RLess(stZ, RNeg(stLambda))) =>
              stOut = Zero
        /\ ~RLess(stLambda, RAbs(stZ)) => stOut = Zero
        /\ stLambda = Zero => stOut = stZ
        /\ ~RLess(stLambda, Zero) =>
              /\ ~(RLess(stOut, Zero) /\ RLess(Zero, stZ))
              /\ ~(RLess(Zero, stOut) /\ RLess(stZ, Zero))
              /\ ~RLess(RAbs(stZ), RAbs(stOut))

C15_Witness ==
    /\ pc = "softret"
    /\ stZ = Rat(-3, 2) /\ stLambda = Rat(1, 2) /\ stOut = Rat(-1, 1)

\* C16: Fit and standardize never modify the input matrix: after any call,
\* successful or failing, every entry of the input has the value it had
\* before the call; the standardized copy has the shape n x p of the input,
\* and every constant column of the input is all zeros in it.
C16_InputKeptConstantColumnsZero ==
    /\ inX = oldX
    /\ pc = "standardized" =>
          /\ SameShape(stdX)
          /\ \A j \in Cols :
                ConstantColumn(oldX, j) => \A i \in Rows : stdX[i][j] = Zero

\* C17: the orchestrator fixes its selection and writes Order, Residuals,
\* Adjacency, Weights and remaining only when every task dispatched in the
\* iteration has finished, so no task reads remaining or stdX while they
\* are written; a step of a task writes none of them, and nothing the
\* orchestrator selects with: only the channel of the results.
C17_WritesAfterBarrier ==
    [][/\ WritesShared => TasksFinished
       /\ (pc = "collect" /\ pc' # "collect") => TasksFinished
       /\ \A j \in DOMAIN task :
             TaskStep(j) => UNCHANGED <<remaining, resultVars, stdDone,
                                        bestVars, pc, dj, closed>>]_vars

\* an iteration with two workers and three tasks has selected a variable
C17_Witness ==
    /\ pc = "loop" /\ Len(Order) = 1 /\ bestVar # NoVar
    /\ workers = 2 /\ p = 3
    /\ \A j \in Cols : task[j] = "done"

\* C18 (as stated): processVariables returns, and findBestVariable receives
\* a result, only when every task of the iteration has completed.
C18_NoConsumptionWhileRunning ==
    [][/\ (pc = "dispatch" /\ pc' = "collect") => TasksFinished
       /\ Len(results') < Len(results) => TasksFinished]_vars

\* C18 (amended): the channel of the results is closed only when every
\* task of the iteration has completed, and findBestVariable returns only
\* when the channel is closed and every result sent has been received.
C18_CollectionCompleteAfterAllTasks ==
    [][/\ closed' => \A j \in Active(remaining) : task'[j] = "done"
       /\ (pc = "collect" /\ pc' # "collect") =>
             closed /\ results = <<>>]_vars

\* two workers, three tasks: the channel is closed and drained, a variable
\* is selected and findBestVariable is about to return
C18_Witness ==
    /\ pc = "collect" /\ closed /\ results = <<>>
    /\ bestVar # NoVar
    /\ workers = 2 /\ p = 3 /\ Order = <<>>

\* C19: at the start of every iteration the number of active indices is p
\* minus the number of completed iterations and the active set is the set
\* of the indices not in Order; each iteration removes exactly one index,
\* the one it appended to Order, and an index removed is never active again.
C19_ActiveSetShrinksByOne ==
    [][/\ pc' = "loop" =>
             /\ countActive(remaining') = p - Len(Order')
             /\ Active(remaining') = Cols \ Range(Order')
       /\ Order' # Order =>
             \E b \in Active(remaining) :
                /\ Order' = Append(Order, b)
                /\ remaining' = [remaining EXCEPT ![b] = FALSE]
       /\ \A j \in DOMAIN remaining \cap DOMAIN remaining' :
             ~remaining[j] => ~remaining'[j]]_vars

\* C20: at the step that selects bestVar from the active set S, for every
\* j in S other than bestVar, with w the entry of bestWeights at the
\* position of j among the indices of S without bestVar in ascending order
\* (the column of j in bestVar's subproblem, so w is the weight the fit
\* gave to predictor j): Adjacency[bestVar][j] becomes true and
\* Weights[bestVar][j] becomes w if and only if |w| > Tolerance; the
\* entries of Adjacency and Weights outside row bestVar, and the columns
\* of the variables selected before, are left unchanged by the step.
C20_SelectionWritesRowOfBest ==
    [][(pc = "collect" /\ pc' = "loop") =>
         LET S == Active(remaining)
             b == bestVar
         IN /\ b \in S
            /\ \A j \in S \ {b} :
                 LET w == bestWeights'[colIdx(remaining, b, j) + 1]
                 IN /\ w = fitW'[b][j]
                    /\ Adjacency'[b][j] = (Abs(w) > Tolerance)
                    /\ Weights'[b][j] =
                          IF Abs(w) > Tolerance THEN w ELSE Weights[b][j]
            /\ \A i \in Cols, j \in Cols :
                 (i # b \/ j \in Range(Order)) =>
                     /\ Adjacency'[i][j] = Adjacency[i][j]
                     /\ Weights'[i][j] = Weights[i][j]]_vars

\* the first step of a Fit of three columns selected column 1, with a
\* weight above the tolerance for column 0 and one below it for column 2
C20_Witness ==
    /\ pc = "loop" /\ p = 3 /\ Order = <<1>>
    /\ Adjacency[1][0] /\ Weights[1][0] = -2
    /\ ~Adjacency[1][2] /\ Weights[1][2] = 0
    /\ bestWeights = <<-2, 1>>

\* C21: in every iteration with two or more active indices exactly one task
\* is dispatched for each active index and none for an inactive one; every
\* task runs to completion and delivers exactly one result, so that the
\* orchestrator has received exactly one result for each index of S and
\* none for another index when it selects.  Over a whole run on a valid
\* input the barrier is passed exactly p - 1 times.
C21_OneResultPerActiveIndex ==
    [][/\ \A j \in DOMAIN task \cap DOMAIN task' :
             (task[j] = "idle" /\ task'[j] # "idle") =>
                 remaining[j] /\ task'[j] = "running"
       /\ SelectionStep =>
             /\ countActive(remaining) >= 2
             /\ \A j \in Cols :
                   IF remaining[j]
                   THEN task[j] = "done" /\ got[j] = 1
                   ELSE task[j] = "idle" /\ got[j] = 0
       /\ (ValidInput /\ RunEnded') => barriers' = p - 1]_vars

\* C22: when exactly one index is active, the step that follows appends it
\* to Order and removes it from the active set; no task is dispatched and
\* the solver is not called; the residual is recorded at the last step
\* position p and no other one; no entry of Adjacency or Weights is
\* written.  So the variable that a returned Order ends with has no
\* outgoing edge, and for p = 1 the solver is never called.
C22_LastVariableAlone ==
    [][/\ (pc = "loop" /\ countActive(remaining) = 1) =>
             \E j \in Active(remaining) :
                /\ Order' = Append(Order, j)
                /\ Len(Order') = p
                /\ countActive(remaining') = 0
                /\ \A k \in 1..(p - 1) : Residuals'[k] = Residuals[k]
                /\ UNCHANGED <<Adjacency, Weights, task, sem, wg, results,
                               calls, solvedBy, barriers>>
       /\ ReturnedResult' =>
             /\ \A j \in Cols : ~Adjacency'[Order'[p]][j]
             /\ p = 1 => calls' = 0 /\ solvedBy' = {}]_vars

\* the last of three variables has been processed after two selections
\* that wrote an edge
C22_Witness ==
    /\ pc = "loop" /\ p = 3 /\ Len(Order) = 3
    /\ countActive(remaining) = 0
    /\ \E i \in Cols, j \in Cols : Adjacency[i][j]
    /\ calls = 5

\* C23: a task whose subproblem has no predictor sends the sentinel
\* MaxFloat64 with nil weights and does not call the solver (a task that
\* has a predictor calls it once); a candidate with the sentinel MSE is
\* never the selected one, and when some candidate has a smaller MSE the
\* selected candidate has the least MSE sent.
C23_SentinelNeverSelected ==
    [][/\ \A j \in DOMAIN task \cap DOMAIN task' :
             (task[j] = "running" /\ task'[j] = "sent") =>
                 LET res == results'[Len(results')]
                 IN /\ res.idx = j
                    /\ IF Active(remaining) \ {j} = {}
                       THEN /\ res.mse = MaxFloat64
                            /\ res.weights = "nil"
                            /\ calls' = calls
                       ELSE /\ res.weights = "fit"
                            /\ calls' = calls + 1
       /\ SelectionStep =>
             /\ bestVar # NoVar => bestMSE < MaxFloat64
             /\ minMSE < MaxFloat64 =>
                   bestVar \in minSet /\ bestMSE = minMSE]_vars

\* processVariables was called with one active index of three: its task
\* sent the sentinel, the solver was not called, nothing is selected
C23_Witness ==
    /\ pc = "selected" /\ p = 3
    /\ countActive(remaining) = 1
    /\ \E j \in Active(remaining) : got[j] = 1 /\ task[j] = "done"
    /\ minMSE = MaxFloat64 /\ bestVar = NoVar /\ calls = 0

\* C24: every call that Fit makes to the solver passes a predictor matrix
\* of |S| - 1 >= 1 columns, which are the standardized columns of the
\* active indices other than the target in ascending index order, and the
\* standardized column of the target as the target vector; the solver is
\* never called with no predictor column.
C24_SolverArguments ==
    [][calls' # calls =>
         \E j \in Active(remaining) :
            LET S == Active(remaining)
                a == fitArgs'[j]
            IN /\ task[j] = "running" /\ task'[j] = "sent"
               /\ calls' = calls + 1
               /\ a.y = j
               /\ ~a.isNil
               /\ Len(a.xMat) = Cardinality(S) - 1
               /\ Len(a.xMat) >= 1
               /\ Range(a.xMat) = S \ {j}
               /\ \A k \in 1..Len(a.xMat), l \in 1..Len(a.xMat) :
                     k < l => a.xMat[k] < a.xMat[l]
               /\ \A q \in Cols \ {j} : fitArgs'[q] = fitArgs[q]]_vars

\* in the second iteration of a Fit of three columns, column 0 being
\* selected, the task of column 1 has called the solver with column 2
C24_Witness ==
    /\ p = 3 /\ Order = <<0>>
    /\ task[1] \in {"sent", "released", "done"}
    /\ fitArgs[1] = [isNil |-> FALSE, xMat |-> <<2>>, y |-> 1]

\* C25: the default solver always returns, with one weight per column.  It
\* makes at most MaxIter sweeps; a sweep visits the coordinates 0..k-1 in
\* that order; the solver stops after the first sweep in which the greatest
\* absolute change of a weight is below Tolerance, and returns the current
\* weights also when MaxIter sweeps were made without that.
C25_SolverTerminates ==
    /\ [][/\ LassoBuilt' => iter' <= lasso'.MaxIter
          /\ (pc = "sweep" /\ pc' = "coord") =>
                lj' = 1 /\ iter < lasso.MaxIter
          /\ (pc = "coord" /\ pc' = "coord") =>
                /\ lj \in 1..Len(cols) /\ lj' = lj + 1
                /\ \A q \in 1..(lj - 1) : weights'[q] = weights[q]
          /\ (pc = "coord" /\ pc' # "coord") =>
                /\ lj = Len(cols) + 1
                /\ maxChange = MaxChangeOf(weights, sweepW)
                /\ IF RLess(MaxChangeOf(weights, sweepW),
                            ToleranceOf(lasso.Tolerance))
                   THEN pc' = "lassoret" /\ lret'.vec = weights
                   ELSE pc' = "sweep" /\ iter' = iter + 1
          /\ (pc = "sweep" /\ pc' = "lassoret") =>
                iter = lasso.MaxIter /\ lret'.vec = weights
          /\ (pc' = "lassoret" /\ ~Xnil) =>
                ~lret'.isNil /\ Len(lret'.vec) = Len(cols)]_vars
    /\ <>(pc = "lassoret")

\* two sweeps were made on two columns, the second one still changed a
\* weight by Tolerance or more, and the weights are returned
C25_Witness ==
    /\ pc = "lassoret" /\ ~Xnil /\ Len(cols) = 2
    /\ lasso.MaxIter = 2 /\ iter = 2
    /\ ~RLess(maxChange, ToleranceOf(lasso.Tolerance))
    /\ lret.vec = weights /\ Len(weights) = 2



\* C26: for a Lambda >= 0, the default solver returns the weight 0 for every
\* predictor column whose entries are all zero, and the weights of the other
\* columns are those it returns when the zero column is left out.
C26_ZeroColumnIgnored ==
    (pc = "lassoret" /\ ~Xnil /\ lasso.Lambda >= 0) =>
        \A j \in DOMAIN cols :
            ZeroColumn(j) =>
                /\ lret.vec[j] = Zero
                /\ RemoveAt(lret.vec, j) = LassoFitOf(lasso, RemoveAt(cols, j), y)

\* a zero column beside a column that got a weight other than 0
C26_Witness ==
    /\ pc = "lassoret" /\ ~Xnil /\ lasso.Lambda >= 0
    /\ Len(cols) = 2 /\ ZeroColumn(1) /\ ~ZeroColumn(2)
    /\ lret.vec[1] = Zero /\ lret.vec[2] # Zero
    /\ RemoveAt(lret.vec, 1) = LassoFitOf(lasso, RemoveAt(cols, 1), y)


\* C27: with workers = 1 the tasks of an iteration run one after another in
\* ascending order of the index: a task is started only when every task
\* started before it has sent its result and released the slot; the results
\* are received in ascending order of the index; and when the selection is
\* made, the variable selected is the lowest index among those that share
\* the minimal MSE.
C27_OneWorkerAscending ==
    [][workers = 1 =>
        /\ \A j \in DOMAIN task \cap DOMAIN task' :
              (task[j] = "idle" /\ task'[j] = "running") =>
                  \A q \in DOMAIN task :
                      /\ task[q] # "idle" => q < j
                      /\ task[q] \in {"idle", "released", "done"}
        /\ (pc = "collect" /\ Len(results') < Len(results)) =>
              \A q \in Cols : got[q] > 0 => q < Head(results).idx
        /\ (SelectionStep /\ minSet # {}) =>
              bestVar \in minSet /\ \A j \in minSet : bestVar <= j]_vars


\* C28: the channel of the results never holds more than p results, and it
\* is not full while a task has yet to send, so that no send blocks; the
\* channel is closed once in an iteration, when every task of the iteration
\* has sent its result, and before the selection is made; no task sends on
\* the closed channel.
C28_SendNeverBlocks ==
    [][/\ Len(results') <= p
       /\ \A j \in DOMAIN task' : task'[j] = "running" => Len(results') < p
       /\ \A j \in DOMAIN task \cap DOMAIN task' :
             (task[j] = "running" /\ task'[j] # "running") =>
                 /\ ~closed /\ ~closed'
                 /\ Len(results') = Len(results) + 1
       /\ (~closed /\ closed') =>
             /\ barriers' = barriers + 1
             /\ \A j \in Cols :
                   IF remaining[j] THEN task[j] \in {"sent", "released", "done"}
                   ELSE task[j] = "idle"
       /\ (closed /\ ~closed') => pc' # "collect" /\ results' = <<>>
       /\ SelectionStep => closed]_vars

\* three tasks have sent and released, nothing was received yet: the
\* channel holds p results
C28_Witness ==
    /\ p = 3 /\ countActive(remaining) = 3
    /\ Len(results) = p /\ ~closed /\ sem = 0
    /\ \A j \in Cols : got[j] = 0


\* C29: in every state of Fit that has the result, and in the result
\* returned, Weights[i][j] is other than 0 only where Adjacency[i][j] is
\* true, and where Adjacency[i][j] is true |Weights[i][j]| is above the
\* tolerance.  An entry of Adjacency or of Weights is written only by the
\* step that selects i, which finds it FALSE and 0 and places i, not placed
\* before, in Order; it is not written again.  (The result is empty before
\* Fit, so the first part is stated of the steps that write it.)
C29_WeightsOnlyOnEdgesWrittenOnce ==
    [][/\ (Weights' # Weights \/ Adjacency' # Adjacency) =>
             /\ \A i \in DOMAIN Weights' : \A j \in DOMAIN Weights'[i] :
                   /\ Weights'[i][j] # 0 => Adjacency'[i][j]
                   /\ Adjacency'[i][j] => Abs(Weights'[i][j]) > Tolerance
             /\ \A i \in DOMAIN Weights \cap DOMAIN Weights' :
                   \A j \in DOMAIN Weights[i] :
                      (Weights'[i][j] # Weights[i][j]
                          \/ Adjacency'[i][j] # Adjacency[i][j]) =>
                          /\ SelectionStep /\ i = bestVar
                          /\ ~Adjacency[i][j] /\ Weights[i][j] = 0
                          /\ i \notin Range(Order)
                          /\ Order' = Append(Order, i)
       /\ (Weights # <<>> /\ Weights' # <<>>) =>
             /\ Len(Order') >= Len(Order)
             /\ \A k \in 1..Len(Order) : Order'[k] = Order[k]]_vars

\* a result of three variables is returned with an edge whose weight is
\* -2 and a pair of variables left without an edge
C29_Witness ==
    /\ ReturnedResult /\ p = 3
    /\ Adjacency[Order[1]][Order[2]] /\ Weights[Order[1]][Order[2]] = -2
    /\ ~Adjacency[Order[1]][Order[3]] /\ Weights[Order[1]][Order[3]] = 0
    /\ Adjacency[Order[2]][Order[3]]


\* C30: inside the default solver, after every coordinate step the running
\* residual equals the target minus the sum over the coordinates of weight
\* times column; a step whose |delta| is at most 1e-12 leaves the weights
\* and the residual unchanged; a step on coordinate j changes the weight of
\* no other coordinate.
C30_ResidualIsTargetMinusFit ==
    [][CoordinateStepTaken =>
        /\ ResidualIsExact'
        /\ (~IsNaN(lDelta') /\ ~DeltaApplied) =>
              weights' = weights /\ residual' = residual
        /\ \A q \in DOMAIN weights : q # lj => weights'[q] = weights[q]]_vars

\* C30 as amended: the running residual equals the target minus the sum of
\* weight times column when the loop begins, and a coordinate step keeps
\* that equality when it applies no change or when the operations of its
\* update do not round; the other two parts as stated.
C30_ResidualUpToRounding ==
    [][/\ (pc = "lassofit" /\ pc' = "sweep") => ResidualIsExact'
       /\ CoordinateStepTaken =>
            /\ (ResidualIsExact /\ (DeltaApplied => UpdateUnrounded)) =>
                  ResidualIsExact'
            /\ (~IsNaN(lDelta') /\ ~DeltaApplied) =>
                  weights' = weights /\ residual' = residual
            /\ \A q \in DOMAIN weights :
                  q # lj => weights'[q] = weights[q]]_vars

\* both coordinates of a sweep were changed without rounding: the residual
\* is no longer the target and equals the target minus the fit
C30_Witness ==
    /\ pc = "coord" /\ Len(cols) = 2 /\ lj = 3
    /\ weights[1] # Zero /\ weights[2] # Zero
    /\ residual # y
    /\ ResidualIsExact

====
